---- MODULE Spec2Model ----
(***************************************************************************)
(* A model of the HTTP/1.1 request parser of rask (src/src/parser/h1).     *)
(*                                                                         *)
(* Bytes are the integers 0..255 and a buffer is a sequence of bytes.      *)
(* Positions are the 0-based indices of the Rust code: the byte at index i *)
(* of buf is At(buf, i).  A byte range start..end is the pair <<s, e>>.    *)
(***************************************************************************)
EXTENDS Integers, Sequences, FiniteSets, TLC

VARIABLES
    build,      \* target features the crate was compiled with (cfg(target_feature))
    wire,       \* the bytes the reader will deliver, in order
    sent,       \* how many bytes of wire the reader has delivered
    fills,      \* number of fill() calls made
    data,       \* H1Request.data
    complete,   \* H1Request.complete
    method,     \* H1Request.method   ("None" or a Method)
    target,     \* H1Request.target   (<<>> for None, <<s, e>> for Some(s..e))
    version,    \* H1Request.version  ("None" or a Version)
    headers,    \* H1Request.headers as the caller reads it (<<"None">> or <<"Some", seq>>)
    hdr_array,  \* the entries of parse's local array that the last call wrote
    result,     \* what the last call returned, and on how many bytes
    last_call,  \* the function called last, the position it was given, and
                \* whether the call was a repetition
    conn,       \* the PlainConnection that owns the H1Request, and its place in
                \* the listener's table
    raw,        \* a RawRequest cursor, and what the last call on it returned
    buffer,     \* a Buffer (first/buffer.rs), the bytes written to it and not
                \* yet marked read, and what the last call on it returned
    session,    \* a Session: its two Buffers and the bytes written to its stream
    listener    \* a Listener: its connection table, the connections, the events
                \* sent to the workers and the tokens the workers sent back

vars == <<build, wire, sent, fills, data, complete, method, target, version,
          headers, hdr_array, result, last_call, conn, raw, buffer, session, listener>>

-----------------------------------------------------------------------------
(* Byte values *)

SP == 32
HTAB == 9
CR == 13
LF == 10
COLON == 58
DEL == 127
LOW == 31

At(buf, i) == buf[i + 1]

\* buf[a..b) as a sequence
Slice(buf, a, b) == SubSeq(buf, a + 1, b)

Prefix(buf, k) == SubSeq(buf, 1, k)

-----------------------------------------------------------------------------
(* Token classes (h1/tokens.rs) *)

Digits == 48..57
Alpha == (65..90) \cup (97..122)
TcharPunct == {33, 35, 36, 37, 38, 39, 42, 43, 45, 46, 94, 95, 96, 124, 126}

is_header_name_token(b) == b \in Digits \cup Alpha \cup TcharPunct

is_header_value_token(b) == (b > 31 \/ b = 9) /\ b # 127

is_request_target_token(b) == b >= 33 /\ b <= 126

-----------------------------------------------------------------------------
(* Status values of the sub-parsers.  at is the index of the byte that      *)
(* decided an error (ghost: ParseError carries no position).               *)

StComplete(p, v) == [st |-> "Complete", pos |-> p, val |-> v, err |-> "None", at |-> 0]
StPartial == [st |-> "Partial", pos |-> 0, val |-> <<>>, err |-> "None", at |-> 0]
StErr(e, p) == [st |-> "Err", pos |-> 0, val |-> <<>>, err |-> e, at |-> p]

-----------------------------------------------------------------------------
(* h1/mod.rs helpers used by request.rs *)

RECURSIVE discard_whitespace(_, _)
discard_whitespace(buf, pos) ==
    IF pos >= Len(buf) THEN -1
    ELSE IF At(buf, pos) # SP /\ At(buf, pos) # HTAB THEN pos
    ELSE discard_whitespace(buf, pos + 1)

discard_required_whitespace(buf, pos, err) ==
    IF pos >= Len(buf) THEN StPartial
    ELSE IF At(buf, pos) = SP THEN StComplete(pos + 1, <<>>)
    ELSE StErr(err, pos)

discard_required_newline(buf, pos, err) ==
    IF pos >= Len(buf) THEN StPartial
    ELSE IF At(buf, pos) # CR THEN StErr(err, pos)
    ELSE IF pos + 1 >= Len(buf) THEN StPartial
    ELSE IF At(buf, pos + 1) # LF THEN StErr(err, pos + 1)
    ELSE StComplete(pos + 2, <<>>)

-----------------------------------------------------------------------------
(* Wide-word decoders.  A u64 loaded from 8 bytes is the tuple of its byte  *)
(* lanes, lane 1 the least significant (little-endian target); a mask      *)
(* 0x00..00ff..ff with L low bytes set keeps lanes 1..L and zeroes the rest.*)

from_le_bytes(bytes) == [i \in 1..8 |-> IF i <= Len(bytes) THEN bytes[i] ELSE 0]

MaskLow_keeps_all(word, L) == word

MaskLow(word, L) == [i \in 1..8 |-> IF i <= L THEN word[i] ELSE 0]

GET == <<71, 69, 84>>
PUT == <<80, 85, 84>>
POST == <<80, 79, 83, 84>>
HEAD == <<72, 69, 65, 68>>
TRACE == <<84, 82, 65, 67, 69>>
DELETE == <<68, 69, 76, 69, 84, 69>>
OPTIONS == <<79, 80, 84, 73, 79, 78, 83>>
CONNECT == <<67, 79, 78, 78, 69, 67, 84>>

MethodLiterals == {GET, PUT, POST, HEAD, TRACE, DELETE, OPTIONS, CONNECT}

H1_1 == <<72, 84, 84, 80, 47, 49, 46, 49>>
H1_0 == <<72, 84, 84, 80, 47, 49, 46, 48>>
H2 == <<72, 84, 84, 80, 47, 50>>
H3 == <<72, 84, 84, 80, 47, 51>>

VersionLiterals == {H1_1, H1_0, H2, H3}

\* impl TryFrom<&[u8]> for Method
Method_try_from(value) ==
    CASE value = GET -> "Get"
      [] value = HEAD -> "Head"
      [] value = POST -> "Post"
      [] value = PUT -> "Put"
      [] value = DELETE -> "Delete"
      [] value = CONNECT -> "Connect"
      [] value = OPTIONS -> "Options"
      [] value = TRACE -> "Trace"
      [] OTHER -> "Err"

\* impl TryFrom<&[u8]> for Version
Version_try_from(value) ==
    CASE value = H1_0 -> "H1_0"
      [] value = H1_1 -> "H1_1"
      [] value = H2 -> "H2"
      [] value = H3 -> "H3"
      [] OTHER -> "Err"

\* index (from base) of the first byte of buf that continues no literal of lits
FirstMismatch(buf, base, lits) ==
    LET bad(i) == ~ \E l \in lits :
                       /\ Len(l) > i
                       /\ \A j \in 0..i : At(buf, base + j) = l[j + 1]
    IN  base + (CHOOSE i \in 0..7 : bad(i) /\ \A k \in 0..(i - 1) : ~ bad(k))

parse_method(buf) ==
    IF Len(buf) < 8 THEN StPartial
    ELSE LET eight == from_le_bytes(Slice(buf, 0, 8)) IN
         IF MaskLow(eight, 3) = from_le_bytes(GET) THEN StComplete(3, "Get")
         ELSE IF MaskLow(eight, 3) = from_le_bytes(PUT) THEN StComplete(3, "Put")
         ELSE IF MaskLow(eight, 4) = from_le_bytes(POST) THEN StComplete(4, "Post")
         ELSE IF MaskLow(eight, 4) = from_le_bytes(HEAD) THEN StComplete(4, "Head")
         ELSE IF MaskLow(eight, 5) = from_le_bytes(TRACE) THEN StComplete(5, "Trace")
         ELSE IF MaskLow(eight, 6) = from_le_bytes(DELETE) THEN StComplete(6, "Delete")
         ELSE IF MaskLow(eight, 7) = from_le_bytes(OPTIONS) THEN StComplete(7, "Options")
         ELSE IF MaskLow(eight, 7) = from_le_bytes(CONNECT) THEN StComplete(7, "Connect")
         ELSE StErr("Method", FirstMismatch(buf, 0, MethodLiterals))

parse_version_consumes_eight(buf, pos) ==
    IF Len(buf) - pos < 8 THEN StPartial
    ELSE LET eight == from_le_bytes(Slice(buf, pos, pos + 8)) IN
         IF eight = from_le_bytes(H1_1) THEN StComplete(pos + 8, "H1_1")
         ELSE IF eight = from_le_bytes(H1_0) THEN StComplete(pos + 8, "H1_0")
         ELSE IF MaskLow(eight, 6) = from_le_bytes(H2) THEN StComplete(pos + 8, "H2")
         ELSE IF MaskLow(eight, 6) = from_le_bytes(H3) THEN StComplete(pos + 8, "H3")
         ELSE StErr("Version", FirstMismatch(buf, pos, VersionLiterals))

parse_version(buf, pos) ==
    IF Len(buf) - pos < 8 THEN StPartial
    ELSE LET eight == from_le_bytes(Slice(buf, pos, pos + 8)) IN
         IF eight = from_le_bytes(H1_1) THEN StComplete(pos + 8, "H1_1")
         ELSE IF eight = from_le_bytes(H1_0) THEN StComplete(pos + 8, "H1_0")
         ELSE IF MaskLow(eight, 6) = from_le_bytes(H2) THEN StComplete(pos + 6, "H2")
         ELSE IF MaskLow(eight, 6) = from_le_bytes(H3) THEN StComplete(pos + 6, "H3")
         ELSE StErr("Version", FirstMismatch(buf, pos, VersionLiterals))

-----------------------------------------------------------------------------
(* Batched validators (SSSE3: 16-byte windows, AVX2: 32-byte windows) *)

RECURSIVE BitAnd(_, _)
BitAnd(a, b) ==
    IF a = 0 \/ b = 0 THEN 0
    ELSE (a % 2) * (b % 2) + 2 * BitAnd(a \div 2, b \div 2)

\* _mm_shuffle_epi8 on one lane: a control byte with its high bit set gives 0,
\* otherwise the table entry selected by the low four bits
shuffle_epi8(table, ctl) == IF ctl >= 128 THEN 0 ELSE table[(ctl % 16) + 1]

row_map == <<1, 2, 4, 8, 16, 32, 64, 128, 0, 0, 0, 0, 0, 0, 0, 0>>

target_col_map ==
    <<248, 252, 252, 252, 252, 252, 252, 252, 252, 252, 252, 252, 244, 252, 244, 124>>

name_col_map_with_colon ==
    <<232, 252, 248, 252, 252, 252, 252, 252, 248, 248, 252, 84, 208, 84, 244, 112>>

name_col_map ==
    <<232, 252, 248, 252, 252, 252, 252, 252, 248, 248, 244, 84, 208, 84, 244, 112>>

\* Only({e : x \in {v}}) is e with x bound to the value of v, computed once.
Only(S) == CHOOSE x \in S : TRUE

\* one lane of row_col = row_mask & col_mask; the lane counts towards
\* num_valid while row_col is not zero
LaneNibble(col_map, b) ==
    \E row_mask \in {shuffle_epi8(row_map, b \div 16)} :
    \E col_mask \in {shuffle_epi8(col_map, b)} :
        BitAnd(row_mask, col_mask) # 0

\* _mm_cmpgt_epi8 compares the lanes as signed bytes
AsI8(b) == IF b >= 128 THEN b - 256 ELSE b

LaneValue(b) ==
    LET is_tab == b = HTAB
        is_del == b = DEL
        above_low == AsI8(b) > LOW
        above_low_or_tab == above_low \/ is_tab
    IN  above_low_or_tab /\ ~ is_del

LaneValid(class, b) ==
    CASE class = "target" -> LaneNibble(target_col_map, b)
      [] class = "name" -> LaneNibble(name_col_map, b)
      [] class = "value" -> LaneValue(b)

\* trailing_zeros of the movemask: the number of leading valid lanes of the
\* window of W bytes at pos
RECURSIVE num_valid(_, _, _, _, _)
num_valid(class, buf, pos, W, i) ==
    IF i < W /\ LaneValid(class, At(buf, pos + i))
    THEN num_valid(class, buf, pos, W, i + 1)
    ELSE i

\* while buf[pos..].len() >= W { ...; if num_valid != W { return Ok(pos) } }  Err(pos)
RECURSIVE validate_vectorized(_, _, _, _)
validate_vectorized(class, buf, pos, W) ==
    IF Len(buf) - pos >= W
    THEN Only({ IF nv # W THEN [ok |-> TRUE, pos |-> pos + nv]
                ELSE Only({ validate_vectorized(class, buf, next, W) : next \in {pos + W} })
              : nv \in {num_valid(class, buf, pos, W, 0)} })
    ELSE [ok |-> FALSE, pos |-> pos]

parse_target_vectorized_avx2(buf, pos) == validate_vectorized("target", buf, pos, 32)
parse_target_vectorized_ssse3(buf, pos) == validate_vectorized("target", buf, pos, 16)
validate_header_name_avx2(buf, pos) == validate_vectorized("name", buf, pos, 32)
validate_header_name_ssse3(buf, pos) == validate_vectorized("name", buf, pos, 16)
validate_header_value_avx2(buf, pos) == validate_vectorized("value", buf, pos, 32)
validate_header_value_ssse3(buf, pos) == validate_vectorized("value", buf, pos, 16)

Builds == {"scalar", "ssse3", "avx2"}
HasAvx2(b) == b = "avx2"
HasSsse3(b) == b \in {"ssse3", "avx2"}

\* a validator that is compiled out leaves pos where it was
Skipped(pos) == [ok |-> FALSE, pos |-> pos]

-----------------------------------------------------------------------------
(* Scalar loops: the index of the first byte at or after pos that is not of *)
(* the class, Len(buf) when there is none                                  *)

ScalarIs(class, b) ==
    CASE class = "target" -> is_request_target_token(b)
      [] class = "name" -> is_header_name_token(b)
      [] class = "value" -> is_header_value_token(b)

RECURSIVE scalar_scan(_, _, _)
scalar_scan(class, buf, pos) ==
    IF pos >= Len(buf) THEN pos
    ELSE IF ~ ScalarIs(class, At(buf, pos)) THEN pos
    ELSE scalar_scan(class, buf, pos + 1)

parse_target(b, buf, start) ==
    Only({ IF v1.ok THEN StComplete(v1.pos, <<start, v1.pos>>) ELSE
    Only({ IF v2.ok THEN StComplete(v2.pos, <<start, v2.pos>>) ELSE
    Only({ IF pos < Len(buf) THEN StComplete(pos, <<start, pos>>)
           ELSE StPartial
         : pos \in {scalar_scan("target", buf, v2.pos)} })
         : v2 \in {IF HasSsse3(b) THEN parse_target_vectorized_ssse3(buf, v1.pos)
                   ELSE Skipped(v1.pos)} })
         : v1 \in {IF HasAvx2(b) THEN parse_target_vectorized_avx2(buf, start)
                   ELSE Skipped(start)} })

get_header_name_complete_at_end(b, buf, start) ==
    Only({ IF v1.ok THEN StComplete(v1.pos, <<start, v1.pos>>) ELSE
    Only({ IF v2.ok THEN StComplete(v2.pos, <<start, v2.pos>>) ELSE
    Only({ IF start = pos THEN StErr("HeaderName", pos)
           ELSE StComplete(pos, <<start, pos>>)
         : pos \in {scalar_scan("name", buf, v2.pos)} })
         : v2 \in {IF HasSsse3(b) THEN validate_header_name_ssse3(buf, v1.pos)
                   ELSE Skipped(v1.pos)} })
         : v1 \in {IF HasAvx2(b) THEN validate_header_name_avx2(buf, start)
                   ELSE Skipped(start)} })

get_header_name(b, buf, start) ==
    Only({ IF v1.ok THEN StComplete(v1.pos, <<start, v1.pos>>) ELSE
    Only({ IF v2.ok THEN StComplete(v2.pos, <<start, v2.pos>>) ELSE
    Only({ IF pos < Len(buf)
           THEN IF start = pos THEN StErr("HeaderName", pos)
                ELSE StComplete(pos, <<start, pos>>)
           ELSE StPartial
         : pos \in {scalar_scan("name", buf, v2.pos)} })
         : v2 \in {IF HasSsse3(b) THEN validate_header_name_ssse3(buf, v1.pos)
                   ELSE Skipped(v1.pos)} })
         : v1 \in {IF HasAvx2(b) THEN validate_header_name_avx2(buf, start)
                   ELSE Skipped(start)} })

get_header_value(b, buf, start) ==
    Only({ IF v1.ok THEN StComplete(v1.pos, <<start, v1.pos>>) ELSE
    Only({ IF v2.ok THEN StComplete(v2.pos, <<start, v2.pos>>) ELSE
    Only({ IF pos < Len(buf)
           THEN IF start = pos THEN StErr("HeaderValue", pos)
                ELSE StComplete(pos, <<start, pos>>)
           ELSE StPartial
         : pos \in {scalar_scan("value", buf, v2.pos)} })
         : v2 \in {IF HasSsse3(b) THEN validate_header_value_ssse3(buf, v1.pos)
                   ELSE Skipped(v1.pos)} })
         : v1 \in {IF HasAvx2(b) THEN validate_header_value_avx2(buf, start)
                   ELSE Skipped(start)} })

-----------------------------------------------------------------------------
(* parse_headers.  hdrs is the part of the caller's array written so far;   *)
(* cap is the length of that array.  st "Panic" is an index out of bounds. *)

HsComplete(p, i, h) ==
    [st |-> "Complete", pos |-> p, idx |-> i, hdrs |-> h, err |-> "None", at |-> 0]
HsPartial(i, h) ==
    [st |-> "Partial", pos |-> 0, idx |-> i, hdrs |-> h, err |-> "None", at |-> 0]
HsErr(e, p, h) ==
    [st |-> "Err", pos |-> 0, idx |-> 0, hdrs |-> h, err |-> e, at |-> p]
HsPanic(p, h) ==
    [st |-> "Panic", pos |-> 0, idx |-> 0, hdrs |-> h, err |-> "None", at |-> p]

Header(n, v) == [name |-> n, value |-> v]

\* one iteration of the loop of parse_headers, from the header name on:
\* st "Next" is the end of the iteration, with the loop's pos, idx and headers
HeaderLine(b, buf, pos, cap, idx, hdrs) ==
    Only({
    IF nm.st = "Partial" THEN HsPartial(idx, hdrs)
    ELSE IF nm.st = "Err"
    THEN IF Len(buf) - pos >= 2 /\ Slice(buf, pos, pos + 2) = <<CR, LF>>
         THEN HsComplete(pos, idx, hdrs)
         ELSE HsErr(nm.err, nm.at, hdrs)
    ELSE IF nm.pos >= Len(buf) THEN HsPanic(nm.pos, hdrs)
    ELSE IF At(buf, nm.pos) # COLON THEN HsErr("HeaderName", nm.pos, hdrs)
    ELSE Only({
    IF pos2 = -1 THEN HsPartial(idx, hdrs)
    ELSE Only({
    IF vl.st = "Partial" THEN HsPartial(idx, hdrs)
    ELSE IF vl.st = "Err" THEN HsErr(vl.err, vl.at, hdrs)
    ELSE IF idx >= cap THEN HsPanic(vl.pos, hdrs)
    ELSE Only({
    IF pos3 = -1 THEN HsPartial(idx + 1, hdrs1)
    ELSE Only({
    IF nl.st = "Partial" THEN HsPartial(idx + 1, hdrs1)
    ELSE IF nl.st = "Err" THEN HsErr(nl.err, nl.at, hdrs1)
    ELSE [st |-> "Next", pos |-> nl.pos, idx |-> idx + 1, hdrs |-> hdrs1,
          err |-> "None", at |-> 0]
    : nl \in {discard_required_newline(buf, pos3, "HeaderValue")} })
    : pos3 \in {discard_whitespace(buf, vl.pos)},
      hdrs1 \in {Append(hdrs, Header(nm.val, vl.val))} })
    : vl \in {get_header_value(b, buf, pos2)} })
    : pos2 \in {discard_whitespace(buf, nm.pos + 1)} })
    : nm \in {get_header_name(b, buf, pos)} })

\* the number of halvings that bring n down to 1, rounded up
RECURSIVE Log2Up(_)
Log2Up(n) == IF n <= 1 THEN 0 ELSE 1 + Log2Up((n + 1) \div 2)

\* loop { ... }: up to 2^n iterations from the loop state s, stopping at the
\* first iteration that returns (evaluated by halving, to keep the nesting of
\* the evaluation logarithmic in the number of header lines)
RECURSIVE parse_headers_loop(_, _, _, _, _)
parse_headers_loop(b, buf, cap, s, n) ==
    IF s.st # "Next" THEN s
    ELSE IF n = 0 THEN HeaderLine(b, buf, s.pos, cap, s.idx, s.hdrs)
    ELSE Only({ parse_headers_loop(b, buf, cap, half, n - 1)
              : half \in {parse_headers_loop(b, buf, cap, s, n - 1)} })

\* every iteration that does not return consumes at least one byte, so
\* Len(buf) + 1 iterations are enough for the loop to return
parse_headers(b, buf, pos, cap) ==
    parse_headers_loop(b, buf, cap,
        [st |-> "Next", pos |-> pos, idx |-> 0, hdrs |-> <<>>, err |-> "None", at |-> 0],
        Log2Up(Len(buf) + 1))

-----------------------------------------------------------------------------
(* H1Request::parse as a function of the build and the buffer.  The record  *)
(* holds what the call returns (kind, n, err) and what it assigns to the   *)
(* fields of self: "None" / <<>> / hset = FALSE where it assigns nothing.  *)

HEADERS_CAP == 96

Ret(kind, n, err, at, m, t, v, hset, hdrs) ==
    [kind |-> kind, n |-> n, err |-> err, at |-> at,
     method |-> m, target |-> t, version |-> v, hset |-> hset, hdrs |-> hdrs]

\* how a sub-parser's Partial or Err ends the call
Early(st, m, t, v) ==
    IF st.st = "Partial" THEN Ret("Partial", 0, "None", 0, m, t, v, FALSE, <<>>)
    ELSE Ret("Err", 0, st.err, st.at, m, t, v, FALSE, <<>>)

parse(b, buf) ==
    Only({
    IF pm.st # "Complete" THEN Early(pm, "None", <<>>, "None") ELSE
    Only({
    IF w1.st # "Complete" THEN Early(w1, pm.val, <<>>, "None") ELSE
    Only({
    IF pt.st # "Complete" THEN Early(pt, pm.val, <<>>, "None") ELSE
    Only({
    IF w2.st # "Complete" THEN Early(w2, pm.val, pt.val, "None") ELSE
    Only({
    IF pv.st # "Complete" THEN Early(pv, pm.val, pt.val, "None") ELSE
    Only({
    IF n1.st # "Complete" THEN Early(n1, pm.val, pt.val, pv.val) ELSE
    Only({
    IF ph.st = "Panic"
    THEN Ret("Panic", 0, "None", ph.at, pm.val, pt.val, pv.val, FALSE, ph.hdrs)
    ELSE IF ph.st = "Err"
    THEN Ret("Err", 0, ph.err, ph.at, pm.val, pt.val, pv.val, FALSE, ph.hdrs)
    ELSE IF ph.st = "Partial"
    THEN Ret("Partial", 0, "None", 0, pm.val, pt.val, pv.val, TRUE, ph.hdrs)
    ELSE Only({
    IF n2.st = "Partial"
    THEN Ret("Partial", 0, "None", 0, pm.val, pt.val, pv.val, TRUE, ph.hdrs)
    ELSE IF n2.st = "Err"
    THEN Ret("Err", 0, n2.err, n2.at, pm.val, pt.val, pv.val, TRUE, ph.hdrs)
    ELSE Ret("Complete", n2.pos, "None", 0, pm.val, pt.val, pv.val, TRUE, ph.hdrs)
    : n2 \in {discard_required_newline(buf, ph.pos, "NewLine")} })
    : ph \in {parse_headers(b, buf, n1.pos, HEADERS_CAP)} })
    : n1 \in {discard_required_newline(buf, pv.pos, "NewLine")} })
    : pv \in {parse_version(buf, w2.pos)} })
    : w2 \in {discard_required_whitespace(buf, pt.pos, "Method")} })
    : pt \in {parse_target(b, buf, w1.pos)} })
    : w1 \in {discard_required_whitespace(buf, pm.pos, "Method")} })
    : pm \in {parse_method(buf)} })

-----------------------------------------------------------------------------
(* impl Display for H1Request.  The text written is a sequence of bytes;    *)
(* <<"Panic">> is an unwrap of None or of a from_utf8 error, or a range    *)
(* that is not inside data.                                                *)

\* impl Display for Method
Method_fmt(m) ==
    CASE m = "Get" -> GET
      [] m = "Head" -> HEAD
      [] m = "Post" -> POST
      [] m = "Put" -> PUT
      [] m = "Delete" -> DELETE
      [] m = "Connect" -> CONNECT
      [] m = "Options" -> OPTIONS
      [] m = "Trace" -> TRACE

\* impl Display for Version
Version_fmt(v) ==
    CASE v = "H1_0" -> H1_0
      [] v = "H1_1" -> H1_1
      [] v = "H2" -> H2
      [] v = "H3" -> H3

\* a continuation byte 10xxxxxx at index i of s
IsCont(s, i) == i < Len(s) /\ At(s, i) \in 128..191

\* core::str::from_utf8(s).is_ok(), from index i on
RECURSIVE utf8_from(_, _)
utf8_from(s, i) ==
    IF i >= Len(s) THEN TRUE
    ELSE \E b \in {At(s, i)} :
         IF b < 128 THEN utf8_from(s, i + 1)
         ELSE IF b \in 194..223 THEN IsCont(s, i + 1) /\ utf8_from(s, i + 2)
         ELSE IF b \in 224..239
         THEN /\ IsCont(s, i + 1) /\ IsCont(s, i + 2)
              /\ (b = 224 => At(s, i + 1) >= 160)
              /\ (b = 237 => At(s, i + 1) <= 159)
              /\ utf8_from(s, i + 3)
         ELSE IF b \in 240..244
         THEN /\ IsCont(s, i + 1) /\ IsCont(s, i + 2) /\ IsCont(s, i + 3)
              /\ (b = 240 => At(s, i + 1) >= 144)
              /\ (b = 244 => At(s, i + 1) <= 143)
              /\ utf8_from(s, i + 4)
         ELSE FALSE

\* from_utf8(&self.data[range]).unwrap(): the bytes of the range, or a panic
Text(buf, range) ==
    IF range[1] > range[2] \/ range[2] > Len(buf) THEN <<"Panic">>
    ELSE IF ~ utf8_from(Slice(buf, range[1], range[2]), 0) THEN <<"Panic">>
    ELSE <<"Ok", Slice(buf, range[1], range[2])>>

\* the loop over the headers: "{}: {}\r\n" for each, after the text out
RECURSIVE fmt_headers(_, _, _, _)
fmt_headers(buf, hdrs, i, out) ==
    IF i > Len(hdrs) THEN <<"Ok", out>>
    ELSE Only({ IF nm[1] = "Panic" \/ vl[1] = "Panic" THEN <<"Panic">>
                ELSE fmt_headers(buf, hdrs, i + 1,
                         out \o nm[2] \o <<COLON, SP>> \o vl[2] \o <<CR, LF>>) :
                nm \in {Text(buf, hdrs[i].name)}, vl \in {Text(buf, hdrs[i].value)} })

\* <H1Request as Display>::fmt
fmt(buf, m, t, v, h) ==
    IF m = "None" \/ t = <<>> \/ v = "None" \/ h[1] = "None" THEN <<"Panic">>
    ELSE Only({ IF tt[1] = "Panic" THEN <<"Panic">>
                ELSE Only({ IF hs[1] = "Panic" THEN hs ELSE <<"Ok", hs[2] \o <<CR, LF>>>> :
                            hs \in {fmt_headers(buf, h[2], 1,
                                        Method_fmt(m) \o <<SP>> \o tt[2] \o <<SP>>
                                        \o Version_fmt(v) \o <<CR, LF>>)} }) :
                tt \in {Text(buf, t)} })

-----------------------------------------------------------------------------
(* The accesses to the buffer made by parse: <<i, w>> is an index buf[i]    *)
(* (w = 1), a slice buf[i..] (w = 0) or buf[i..i + w], or a load of w bytes *)
(* at buf[i..].as_ptr().  It is in bounds when i + w <= buf.len().         *)

\* while buf[pos..].len() >= W { load W bytes at pos; ... }
RECURSIVE vector_reads(_, _, _, _)
vector_reads(class, buf, pos, W) ==
    IF Len(buf) - pos >= W
    THEN {<<pos, 0>>, <<pos, W>>}
         \cup (IF num_valid(class, buf, pos, W, 0) # W THEN {}
               ELSE vector_reads(class, buf, pos + W, W))
    ELSE {<<pos, 0>>}

\* for &b in &buf[pos..] { if !is_..._token(b) { return } pos += 1 }
scalar_reads(class, buf, pos) ==
    {<<pos, 0>>}
    \cup {<<i, 1>> : i \in {i \in pos..(Len(buf) - 1) : i <= scalar_scan(class, buf, pos)}}

\* parse_target, get_header_name and get_header_value at start
scan_reads(class, b, buf, start) ==
    Only({ IF v1.ok THEN r1 ELSE
    Only({ IF v2.ok THEN r1 \cup r2 ELSE r1 \cup r2 \cup scalar_reads(class, buf, v2.pos)
         : v2 \in {IF HasSsse3(b) THEN validate_vectorized(class, buf, v1.pos, 16)
                   ELSE Skipped(v1.pos)},
           r2 \in {IF HasSsse3(b) THEN vector_reads(class, buf, v1.pos, 16) ELSE {}} })
         : v1 \in {IF HasAvx2(b) THEN validate_vectorized(class, buf, start, 32)
                   ELSE Skipped(start)},
           r1 \in {IF HasAvx2(b) THEN vector_reads(class, buf, start, 32) ELSE {}} })

\* buf[..8] of parse_method
method_reads(buf) == IF Len(buf) < 8 THEN {} ELSE {<<0, 8>>}

\* buf[pos..].len() and buf[pos..pos + 8] of parse_version
version_reads(buf, pos) ==
    IF Len(buf) - pos < 8 THEN {<<pos, 0>>} ELSE {<<pos, 0>>, <<pos, 8>>}

\* discard_whitespace, discard_required_whitespace: the bytes looked at
whitespace_reads(buf, pos, stop) ==
    {<<i, 1>> : i \in {i \in pos..(Len(buf) - 1) : stop = -1 \/ i <= stop}}

\* discard_required_newline: the bytes looked at
newline_reads(buf, pos) ==
    IF pos >= Len(buf) THEN {}
    ELSE IF At(buf, pos) # CR \/ pos + 1 >= Len(buf) THEN {<<pos, 1>>}
    ELSE {<<pos, 1>>, <<pos + 1, 1>>}

\* one iteration of the loop of parse_headers
header_line_reads(b, buf, pos) ==
    Only({
    IF nm.st = "Partial" THEN rn
    ELSE IF nm.st = "Err"
    THEN rn \cup {<<pos, 0>>} \cup (IF Len(buf) - pos >= 2 THEN {<<pos, 2>>} ELSE {})
    ELSE IF nm.pos >= Len(buf) THEN rn \cup {<<nm.pos, 1>>}
    ELSE IF At(buf, nm.pos) # COLON THEN rn \cup {<<nm.pos, 1>>}
    ELSE Only({
    IF pos2 = -1 THEN rc
    ELSE Only({
    IF vl.st # "Complete" THEN rc \cup rv
    ELSE Only({
    IF pos3 = -1 THEN rc \cup rv \cup whitespace_reads(buf, vl.pos, pos3)
    ELSE rc \cup rv \cup whitespace_reads(buf, vl.pos, pos3) \cup newline_reads(buf, pos3)
    : pos3 \in {discard_whitespace(buf, vl.pos)} })
    : vl \in {get_header_value(b, buf, pos2)},
      rv \in {scan_reads("value", b, buf, pos2)} })
    : pos2 \in {discard_whitespace(buf, nm.pos + 1)},
      rc \in {rn \cup {<<nm.pos, 1>>}
              \cup whitespace_reads(buf, nm.pos + 1, discard_whitespace(buf, nm.pos + 1))} })
    : nm \in {get_header_name(b, buf, pos)},
      rn \in {scan_reads("name", b, buf, pos)} })

\* the loop of parse_headers from pos, idx header lines stored
RECURSIVE parse_headers_reads(_, _, _, _, _)
parse_headers_reads(b, buf, pos, cap, idx) ==
    Only({ header_line_reads(b, buf, pos)
           \cup (IF s.st = "Next" THEN parse_headers_reads(b, buf, s.pos, cap, s.idx)
                 ELSE {})
         : s \in {HeaderLine(b, buf, pos, cap, idx, <<>>)} })

\* H1Request::parse
parse_reads(b, buf) ==
    Only({ method_reads(buf) \cup
    IF pm.st # "Complete" THEN {} ELSE
    Only({ whitespace_reads(buf, pm.pos, pm.pos) \cup
    IF w1.st # "Complete" THEN {} ELSE
    Only({ scan_reads("target", b, buf, w1.pos) \cup
    IF pt.st # "Complete" THEN {} ELSE
    Only({ whitespace_reads(buf, pt.pos, pt.pos) \cup
    IF w2.st # "Complete" THEN {} ELSE
    Only({ version_reads(buf, w2.pos) \cup
    IF pv.st # "Complete" THEN {} ELSE
    Only({ newline_reads(buf, pv.pos) \cup
    IF n1.st # "Complete" THEN {} ELSE
    Only({ parse_headers_reads(b, buf, n1.pos, HEADERS_CAP, 0) \cup
    IF ph.st # "Complete" THEN {} ELSE newline_reads(buf, ph.pos)
    : ph \in {parse_headers(b, buf, n1.pos, HEADERS_CAP)} })
    : n1 \in {discard_required_newline(buf, pv.pos, "NewLine")} })
    : pv \in {parse_version(buf, w2.pos)} })
    : w2 \in {discard_required_whitespace(buf, pt.pos, "Method")} })
    : pt \in {parse_target(b, buf, w1.pos)} })
    : w1 \in {discard_required_whitespace(buf, pm.pos, "Method")} })
    : pm \in {parse_method(buf)} })

-----------------------------------------------------------------------------
(* The inputs: request lines, header blocks, ends of headers and trailing   *)
(* bytes, well-formed and not, combined around one well-formed request.    *)

Rep(b, k) == [i \in 1..k |-> b]

CRLF == <<CR, LF>>

RL(m, s1, t, s2, v, eol) == m \o s1 \o t \o s2 \o v \o eol

Root == <<47>>

ValidReqLines ==
    {RL(m, <<SP>>, Root, <<SP>>, v, CRLF) : m \in MethodLiterals, v \in VersionLiterals}
    \cup {RL(GET, <<SP>>, <<47>> \o Rep(97, 16), <<SP>>, H1_1, CRLF),
          RL(GET, <<SP>>, <<47, 60, 97>>, <<SP>>, H1_1, CRLF)}

BadReqLines ==
    {RL(<<70, 79, 79>>, <<SP>>, Root, <<SP>>, H1_1, CRLF),
     RL(<<103, 101, 116>>, <<SP>>, Root, <<SP>>, H1_1, CRLF),
     RL(GET, <<SP>>, <<>>, <<SP>>, H1_1, CRLF),
     RL(GET, <<SP>>, <<1>>, <<SP>>, H1_1, CRLF),
     RL(GET, <<SP>>, <<47, DEL>>, <<SP>>, H1_1, CRLF),
     RL(GET, <<SP>>, <<47, 128>>, <<SP>>, H1_1, CRLF),
     RL(GET, <<SP>>, <<47, 97, SP, 98>>, <<SP>>, H1_1, CRLF),
     RL(GET, <<HTAB>>, Root, <<SP>>, H1_1, CRLF),
     RL(GET, <<SP>>, Root, <<HTAB>>, H1_1, CRLF),
     RL(GET, <<SP, SP>>, Root, <<SP>>, H1_1, CRLF),
     RL(GET, <<SP>>, Root, <<SP, SP>>, H1_1, CRLF),
     RL(GET, <<SP>>, Root, <<SP>>, <<72, 84, 84, 80, 47, 49, 46, 50>>, CRLF),
     RL(GET, <<SP>>, Root, <<SP>>, H1_1, <<LF>>),
     RL(GET, <<SP>>, Root, <<SP>>, H1_1, <<CR, 120>>)}

HL(n, ows, v, eol) == n \o <<COLON>> \o ows \o v \o eol

\* header lines written as name ":" SP value CRLF
CanonicalHeaderBlocks ==
    {<<>>,
     HL(<<104>>, <<SP>>, <<118>>, CRLF),
     HL(<<104>>, <<SP>>, <<118, 195, 169>>, CRLF),
     HL(<<104>>, <<SP>>, Rep(118, 16), CRLF),
     HL(<<104>>, <<SP>>, <<118>>, CRLF) \o HL(<<105>>, <<SP>>, <<119>>, CRLF)
         \o HL(<<104>>, <<SP>>, <<120>>, CRLF)}

ValidHeaderBlocks ==
    {<<>>,
     HL(<<104>>, <<>>, <<118>>, CRLF),
     HL(<<104>>, <<SP>>, <<118>>, CRLF),
     HL(<<104>>, <<HTAB>>, <<118>>, CRLF),
     HL(<<104>>, <<>>, <<118, SP>>, CRLF),
     HL(<<104>>, <<>>, Rep(118, 16), CRLF),
     HL(Rep(104, 16), <<>>, <<118>>, CRLF),
     HL(<<104>>, <<>>, <<118, 128>>, CRLF),
     HL(<<104>>, <<>>, <<118, 128>> \o Rep(118, 12), CRLF),
     HL(<<104>>, <<>>, <<118>>, CRLF) \o HL(<<104>>, <<>>, <<119>>, CRLF),
     HL(<<104>>, <<SP>>, <<118, SP, HTAB>>, CRLF) \o HL(<<104>>, <<>>, Rep(118, 10), CRLF)}
    \cup CanonicalHeaderBlocks

BadHeaderBlocks ==
    {HL(<<>>, <<>>, <<118>>, CRLF),
     HL(<<>>, <<>>, Rep(118, 12), CRLF),
     HL(<<104>>, <<>>, <<>>, CRLF),
     HL(<<104>>, <<>>, <<>>, CRLF) \o HL(<<104>>, <<>>, Rep(118, 10), CRLF),
     HL(<<104, 64>>, <<>>, <<118>>, CRLF),
     <<104, SP, 118>> \o CRLF,
     HL(<<104>>, <<>>, <<118>>, <<LF>>),
     HL(<<104>>, <<>>, <<118>>, <<CR, 120>>)}

Ends == {CRLF, <<LF>>, <<CR>>, <<CR, 120>>}

Trailers ==
    {<<>>, Rep(97, 13), Rep(97, 14), Rep(97, 30),
     RL(GET, <<SP>>, Root, <<SP>>, H1_1, CRLF) \o CRLF}

BaseReqLine == RL(GET, <<SP>>, Root, <<SP>>, H1_1, CRLF)

Wires ==
    {rl \o CRLF : rl \in ValidReqLines \cup BadReqLines}
    \cup {BaseReqLine \o hb \o CRLF : hb \in ValidHeaderBlocks \cup BadHeaderBlocks}
    \cup {BaseReqLine \o hb \o e \o tr :
            hb \in {<<>>, HL(<<104>>, <<>>, <<118>>, CRLF)}, e \in Ends, tr \in Trailers}

-----------------------------------------------------------------------------
(* The state machine: one H1Request, filled by a reader and parsed *)

MaxFills == 2
MaxChunk == 32

\* len is the length data had when the call was made
\* nth is 2 when the call repeats the call before it on the same data
NoCall == [op |-> "none", pos |-> 0, nth |-> 0]

\* no connection is modelled: the H1Request stands alone
NoConn == [state |-> "None", closed |-> FALSE, responses |-> 0, prepared |-> 0,
           open |-> FALSE, interest |-> {}]

\* no cursor is modelled
NoRaw == [inner |-> <<>>, pos |-> 0, ret |-> <<"None">>, overflow_checks |-> FALSE]

\* a Buffer that owns no allocation: Buffer::new before its call of grow
EmptyBuffer == [cap |-> 0, read_offset |-> 0, write_offset |-> 0, desired_capcity |-> 0,
                mem |-> <<>>]

\* no Buffer is modelled
NoBuffer == [b |-> EmptyBuffer, queue |-> <<>>, d |-> 0, ret |-> <<"None">>,
             overflow_checks |-> FALSE]

\* no Session is modelled
NoSession == [read_buffer |-> EmptyBuffer, write_buffer |-> EmptyBuffer, stream |-> <<>>,
              ret |-> <<"None">>, overflow_checks |-> FALSE]

\* no Listener is modelled
NoListener == [kind |-> "None", connections |-> <<>>, free |-> <<>>, objects |-> <<>>,
               workers |-> <<>>, closed_connections |-> <<>>, drained |-> <<>>]

NoResult == [kind |-> "None", n |-> 0, err |-> "None", at |-> 0, len |-> 0]

Init ==
    /\ build \in Builds
    /\ wire \in Wires
    /\ sent = 0
    /\ fills = 0
    /\ data = <<>>
    /\ complete = FALSE
    /\ method = "None"
    /\ target = <<>>
    /\ version = "None"
    /\ headers = <<"None">>
    /\ hdr_array = <<>>
    /\ result = NoResult
    /\ last_call = NoCall
    /\ conn = NoConn
    /\ raw = NoRaw
    /\ buffer = NoBuffer
    /\ session = NoSession
    /\ listener = NoListener

\* H1Request::fill with a reader that has k bytes ready: they are appended to data
Fill(k) ==
    /\ fills < MaxFills
    /\ k >= 1
    /\ sent + k <= Len(wire)
    /\ k = Len(wire) - sent \/ k <= MaxChunk
    /\ data' = data \o SubSeq(wire, sent + 1, sent + k)
    /\ sent' = sent + k
    /\ fills' = fills + 1
    /\ UNCHANGED <<buffer, session, listener, conn, raw, build, wire, complete, method, target, version, headers, hdr_array,
                   result, last_call>>

\* What the caller may read through self.headers after parse returned: the
\* slice points into parse's stack frame, which is gone, so the entries are
\* either still what parse wrote or whatever overwrote them.
Clobbered(hdrs) == [i \in 1..Len(hdrs) |-> Header(<<0, 0>>, <<0, 0>>)]

DanglingViews(hdrs) == {<<"Some", hdrs>>, <<"Some", Clobbered(hdrs)>>}

Parse_resumes ==
    /\ fills > 0
    /\ \E r \in {parse(build, Slice(data, result.n, Len(data)))} :
       /\ result' = [kind |-> r.kind, n |-> r.n, err |-> r.err, at |-> r.at,
                      len |-> Len(data)]
       /\ method' = IF r.method # "None" THEN r.method ELSE method
       /\ target' = IF r.target # <<>> THEN r.target ELSE target
       /\ version' = IF r.version # "None" THEN r.version ELSE version
       /\ IF r.hset THEN headers' \in DanglingViews(r.hdrs) ELSE headers' = headers
       /\ hdr_array' = r.hdrs
       /\ complete' = (complete \/ r.kind = "Complete")
    /\ last_call' = [op |-> "parse", pos |-> 0,
                     nth |-> IF last_call.op = "parse" /\ result.len = Len(data)
                             THEN 2 ELSE 1]
    /\ UNCHANGED <<buffer, session, listener, conn, raw, build, wire, sent, fills, data>>

\* H1Request::parse
Parse ==
    /\ fills > 0
    /\ \E r \in {parse(build, data)} :
       /\ result' = [kind |-> r.kind, n |-> r.n, err |-> r.err, at |-> r.at,
                      len |-> Len(data)]
       /\ method' = IF r.method # "None" THEN r.method ELSE method
       /\ target' = IF r.target # <<>> THEN r.target ELSE target
       /\ version' = IF r.version # "None" THEN r.version ELSE version
       /\ IF r.hset THEN headers' \in DanglingViews(r.hdrs) ELSE headers' = headers
       /\ hdr_array' = r.hdrs
       /\ complete' = (complete \/ r.kind = "Complete")
    /\ last_call' = [op |-> "parse", pos |-> 0,
                     nth |-> IF last_call.op = "parse" /\ result.len = Len(data)
                             THEN 2 ELSE 1]
    /\ UNCHANGED <<buffer, session, listener, conn, raw, build, wire, sent, fills, data>>

Next ==
    \/ \E k \in 1..Len(wire) : Fill(k)
    \/ Parse

Spec == Init /\ [][Next]_vars

-----------------------------------------------------------------------------
(* Requests with about as many header lines as the header array holds *)

MaxOverCap == 2

RECURSIVE Lines(_, _)
Lines(line, k) == IF k = 0 THEN <<>> ELSE Lines(line, k - 1) \o line

CapLines == {HL(<<97>>, <<>>, <<98>>, CRLF), HL(<<104>>, <<SP>>, <<118>>, CRLF)}

CapWires ==
    {rl \o Lines(line, k) \o CRLF :
        rl \in {BaseReqLine, RL(POST, <<SP>>, Root, <<SP>>, H2, CRLF)},
        line \in CapLines,
        k \in (HEADERS_CAP - 1)..(HEADERS_CAP + MaxOverCap)}

InitCap ==
    /\ build \in Builds
    /\ wire \in CapWires
    /\ sent = 0
    /\ fills = 0
    /\ data = <<>>
    /\ complete = FALSE
    /\ method = "None"
    /\ target = <<>>
    /\ version = "None"
    /\ headers = <<"None">>
    /\ hdr_array = <<>>
    /\ result = NoResult
    /\ last_call = NoCall
    /\ conn = NoConn
    /\ raw = NoRaw
    /\ buffer = NoBuffer
    /\ session = NoSession
    /\ listener = NoListener

SpecCap == InitCap /\ [][Next]_vars

-----------------------------------------------------------------------------
(* The wide-word decoders on their own: a buffer is given, and parse_method *)
(* and parse_version are called on it.                                     *)

Filler == <<SP, 47, SP, 72, 84, 84, 80, 47>>

\* lit with one byte replaced by its lowercase letter or by "X"
Variants(lit) ==
    {[lit EXCEPT ![j] = c] : j \in 1..Len(lit), c \in {88, 120}}
    \cup {[lit EXCEPT ![j] = lit[j] + 32] : j \in {j \in 1..Len(lit) : lit[j] \in 65..90}}

MethodTokens ==
    MethodLiterals
    \cup UNION {Variants(l) : l \in MethodLiterals}
    \cup {l \o <<88>> : l \in MethodLiterals}
    \cup {<<70, 79, 79>>, <<80, 65, 84, 67, 72>>}

VersionTokens ==
    VersionLiterals
    \cup UNION {Variants(l) : l \in VersionLiterals}
    \cup {H2 \o <<46, 48>>, <<72, 84, 84, 80, 47, 49, 46, 50>>}

\* each token followed by more bytes, whole and cut to 8 and to 7 bytes
WordBuffers ==
    UNION {{t \o Filler, Prefix(t \o Filler, 8), Prefix(t \o Filler, 7)} :
              t \in MethodTokens}
    \cup UNION {{t \o CRLF \o CRLF, Prefix(t \o CRLF \o CRLF, 8),
                 Prefix(t \o CRLF \o CRLF, 7), <<71, 69, 84, SP, 47, SP>> \o t \o CRLF} :
              t \in VersionTokens}

InitWord ==
    /\ build \in Builds
    /\ wire \in WordBuffers
    /\ sent = Len(wire)
    /\ fills = 1
    /\ data = wire
    /\ complete = FALSE
    /\ method = "None"
    /\ target = <<>>
    /\ version = "None"
    /\ headers = <<"None">>
    /\ hdr_array = <<>>
    /\ result = NoResult
    /\ last_call = NoCall
    /\ conn = NoConn
    /\ raw = NoRaw
    /\ buffer = NoBuffer
    /\ session = NoSession
    /\ listener = NoListener

\* what a sub-parser returned, as a result
Returned(st) ==
    [kind |-> st.st, n |-> st.pos, err |-> st.err, at |-> st.at, len |-> Len(data)]

\* parse_method(&self.data) and the assignment of the first match of parse
CallParseMethod ==
    /\ \E pm \in {parse_method(data)} :
          /\ result' = Returned(pm)
          /\ method' = IF pm.st = "Complete" THEN pm.val ELSE method
    /\ last_call' = [op |-> "parse_method", pos |-> 0, nth |-> 1]
    /\ UNCHANGED <<buffer, session, listener, conn, raw, build, wire, sent, fills, data, complete, target, version, headers,
                   hdr_array>>

\* parse_version(&self.data, pos) and the assignment of the fifth match of parse
CallParseVersion(pos) ==
    /\ pos <= Len(data)
    /\ \E pv \in {parse_version(data, pos)} :
          /\ result' = Returned(pv)
          /\ version' = IF pv.st = "Complete" THEN pv.val ELSE version
    /\ last_call' = [op |-> "parse_version", pos |-> pos, nth |-> 1]
    /\ UNCHANGED <<buffer, session, listener, conn, raw, build, wire, sent, fills, data, complete, method, target, headers,
                   hdr_array>>

NextWord ==
    \/ CallParseMethod
    \/ \E pos \in 0..Len(data) : CallParseVersion(pos)

SpecWord == InitWord /\ [][NextWord]_vars

-----------------------------------------------------------------------------
(* The batched validators on their own: a buffer is given and one of the   *)
(* six validators the build compiles in is called at a position of it.     *)

\* <<k, n>>: n bytes, the byte under test after k letters "a"
ScanShapes ==
    {<<0, 15>>, <<0, 16>>, <<15, 17>>, <<16, 33>>, <<31, 32>>, <<32, 48>>}

ScanBuffers ==
    {Rep(97, sh[1]) \o <<b>> \o Rep(97, sh[2] - sh[1] - 1) : b \in 0..255, sh \in ScanShapes}

ValidatorNames ==
    {"parse_target_vectorized_avx2", "parse_target_vectorized_ssse3",
     "validate_header_name_avx2", "validate_header_name_ssse3",
     "validate_header_value_avx2", "validate_header_value_ssse3"}

Avx2Names ==
    {"parse_target_vectorized_avx2", "validate_header_name_avx2",
     "validate_header_value_avx2"}

Validator(name, buf, pos) ==
    CASE name = "parse_target_vectorized_avx2" -> parse_target_vectorized_avx2(buf, pos)
      [] name = "parse_target_vectorized_ssse3" -> parse_target_vectorized_ssse3(buf, pos)
      [] name = "validate_header_name_avx2" -> validate_header_name_avx2(buf, pos)
      [] name = "validate_header_name_ssse3" -> validate_header_name_ssse3(buf, pos)
      [] name = "validate_header_value_avx2" -> validate_header_value_avx2(buf, pos)
      [] name = "validate_header_value_ssse3" -> validate_header_value_ssse3(buf, pos)

InitScan ==
    /\ build \in Builds
    /\ wire \in ScanBuffers
    /\ sent = Len(wire)
    /\ fills = 1
    /\ data = wire
    /\ complete = FALSE
    /\ method = "None"
    /\ target = <<>>
    /\ version = "None"
    /\ headers = <<"None">>
    /\ hdr_array = <<>>
    /\ result = NoResult
    /\ last_call = NoCall
    /\ conn = NoConn
    /\ raw = NoRaw
    /\ buffer = NoBuffer
    /\ session = NoSession
    /\ listener = NoListener

\* Result<usize, usize> of the validator name called on (&self.data, pos)
CallValidator(name, pos) ==
    /\ IF name \in Avx2Names THEN HasAvx2(build) ELSE HasSsse3(build)
    /\ \E v \in {Validator(name, data, pos)} :
          result' = [kind |-> IF v.ok THEN "Ok" ELSE "Err", n |-> v.pos,
                     err |-> "None", at |-> 0, len |-> Len(data)]
    /\ last_call' = [op |-> name, pos |-> pos, nth |-> 1]
    /\ UNCHANGED <<buffer, session, listener, conn, raw, build, wire, sent, fills, data, complete, method, target, version,
                   headers, hdr_array>>

NextScan == \E name \in ValidatorNames, pos \in {0, 1} : CallValidator(name, pos)

SpecScan == InitScan /\ [][NextScan]_vars

-----------------------------------------------------------------------------
(* RawRequest, the cursor over a byte slice (parser/raw_request.rs).        *)
(* The cursor is raw.inner and raw.pos; raw.ret is what the last call       *)
(* returned.  A usize is written as its two's-complement reading, so that   *)
(* the values near usize::MAX are the negative integers: -1 is usize::MAX.  *)

USIZE_MAX == -1

\* a < b on usize
ult(a, b) == IF (a < 0) = (b < 0) THEN a < b ELSE b < 0

\* a + b does not fit a usize (a is a position, never near usize::MAX)
add_overflows(a, b) == b < 0 /\ a + b >= 0

\* RawRequest::peek
peek(inner, pos) == IF pos < Len(inner) THEN <<"Some", At(inner, pos)>> ELSE <<"None">>

\* <RawRequest as Iterator>::next
Iterator_next(inner, pos) ==
    [inner |-> inner,
     pos |-> IF pos < Len(inner) THEN pos + 1 ELSE pos,
     ret |-> peek(inner, pos)]

\* RawRequest::advance; checks is the build's overflow-checks setting
advance(inner, pos, n, checks) ==
    IF add_overflows(pos, n) /\ checks THEN [inner |-> inner, pos |-> pos, ret |-> <<"Panic">>]
    ELSE [inner |-> inner,
          pos |-> IF ult(Len(inner), pos + n) THEN Len(inner) ELSE pos + n,
          ret |-> <<"Unit">>]

\* RawRequest::slice_skip with the tail taken from head_pos
slice_skip_keeps_skipped(inner, pos, skip) ==
    IF ult(pos, skip) THEN [inner |-> inner, pos |-> pos, ret |-> <<"Err", "Skip">>]
    ELSE [inner |-> Slice(inner, pos - skip, Len(inner)), pos |-> 0,
          ret |-> <<"Ok", Prefix(inner, pos - skip)>>]

\* RawRequest::slice_skip with head_pos = pos.saturating_sub(skip) and no guard
slice_skip_saturating(inner, pos, skip) ==
    [inner |-> Slice(inner, pos, Len(inner)), pos |-> 0,
     ret |-> <<"Ok", Prefix(inner, IF ult(pos, skip) THEN 0 ELSE pos - skip)>>]

\* RawRequest::slice_skip
slice_skip(inner, pos, skip) ==
    IF ult(pos, skip) THEN [inner |-> inner, pos |-> pos, ret |-> <<"Err", "Skip">>]
    ELSE [inner |-> Slice(inner, pos, Len(inner)), pos |-> 0,
          ret |-> <<"Ok", Prefix(inner, pos - skip)>>]

\* RawRequest::slice: slice_skip(0).expect(..)
slice(inner, pos) ==
    Only({ IF r.ret[1] = "Err" THEN [r EXCEPT !.ret = <<"Panic">>]
           ELSE [r EXCEPT !.ret = <<"Bytes", r.ret[2]>>] :
           r \in {slice_skip(inner, pos, 0)} })

\* RawRequest::take_until with the predicate |b| b == c
RECURSIVE take_until(_, _, _)
take_until(inner, pos, c) ==
    IF pos < Len(inner) /\ At(inner, pos) = c
    THEN Only({ IF r.ret[1] = "Panic" THEN r
                ELSE [r EXCEPT !.ret = IF r.ret[2] = <<>> THEN <<"None">>
                                       ELSE <<"Some", r.ret[2]>>] :
                r \in {slice(inner, pos)} })
    ELSE IF pos < Len(inner)
    THEN take_until(inner, Iterator_next(inner, pos).pos, c)
    ELSE Only({ IF r.ret[1] = "Panic" THEN r ELSE [r EXCEPT !.ret = <<"None">>] :
                r \in {slice(inner, pos)} })

\* Iterator::find with the predicate |b| b == c: next() until it matches
RECURSIVE Iterator_find(_, _, _)
Iterator_find(inner, pos, c) ==
    IF pos >= Len(inner) THEN [inner |-> inner, pos |-> pos, ret |-> <<"None">>]
    ELSE IF At(inner, pos) = c
    THEN [inner |-> inner, pos |-> pos + 1, ret |-> <<"Some", c>>]
    ELSE Iterator_find(inner, pos + 1, c)

\* one pass of the loop of discard_newline: ret is Unit when the pass
\* returns, Continue when the loop goes round
discard_newline_pass(inner, pos) ==
    Only({ IF n2.ret = <<"Some", LF>>
           THEN [slice(n2.inner, n2.pos) EXCEPT !.ret = <<"Unit">>]
           ELSE [n2 EXCEPT !.ret = <<"Continue">>] :
           n2 \in { Iterator_next(n1.inner, n1.pos) :
                    n1 \in { Iterator_next(t.inner, t.pos) :
                             t \in {take_until(inner, pos, CR)} } } })

\* one pass of the loop of skip_newline
skip_newline_pass(inner, pos) ==
    Only({ IF n.ret = <<"Some", LF>> THEN [n EXCEPT !.ret = <<"Unit">>]
           ELSE [n EXCEPT !.ret = <<"Continue">>] :
           n \in { Iterator_next(f.inner, f.pos) : f \in {Iterator_find(inner, pos, CR)} } })

\* the pass of the function name
Pass(name, inner, pos) ==
    IF name = "discard_newline" THEN discard_newline_pass(inner, pos)
    ELSE skip_newline_pass(inner, pos)

\* discard_newline and skip_newline: `loop { pass }`.  A pass that goes round
\* and leaves the cursor as it found it is followed by the same pass for
\* ever: the call does not return, which ret = Hang records.
RECURSIVE newline_loop(_, _, _)
newline_loop(name, inner, pos) ==
    Only({ IF p.ret = <<"Unit">> THEN p
           ELSE IF p.inner = inner /\ p.pos = pos THEN [p EXCEPT !.ret = <<"Hang">>]
           ELSE newline_loop(name, p.inner, p.pos) :
           p \in {Pass(name, inner, pos)} })

\* the slices the cursor is built over
RawBuffers ==
    {<<>>, GET, GET \o <<SP, 47, SP>> \o H1_1,
     <<97, CR, LF, 98>>, <<97, CR, CR, LF, 98>>, <<CR, LF, CR, LF>>, <<97, CR>>}

\* the arguments of advance and slice_skip
MaxArg == 5

Args == 0..MaxArg \cup {USIZE_MAX - 1, USIZE_MAX}

\* the bytes c of the predicates |b| b == c; 0 is in no buffer
Preds == {SP, 71, 0}

InitRaw ==
    /\ build = "scalar"
    /\ wire \in RawBuffers
    /\ sent = Len(wire)
    /\ fills = 0
    /\ data = <<>>
    /\ complete = FALSE
    /\ method = "None"
    /\ target = <<>>
    /\ version = "None"
    /\ headers = <<"None">>
    /\ hdr_array = <<>>
    /\ result = NoResult
    /\ last_call = NoCall
    /\ conn = NoConn
    /\ \E oc \in BOOLEAN :
          raw = [inner |-> wire, pos |-> 0, ret |-> <<"None">>, overflow_checks |-> oc]
    /\ buffer = NoBuffer
    /\ session = NoSession
    /\ listener = NoListener

\* the cursor after a call that left r
Called(op, arg, r) ==
    /\ raw.ret \notin {<<"Panic">>, <<"Hang">>}
    /\ raw' = [inner |-> r.inner, pos |-> r.pos, ret |-> r.ret,
               overflow_checks |-> raw.overflow_checks]
    /\ last_call' = [op |-> op, pos |-> arg, nth |-> 1]
    /\ UNCHANGED <<buffer, session, listener, conn, build, wire, sent, fills, data, complete, method, target, version,
                   headers, hdr_array, result>>

CallNext == Called("next", 0, Iterator_next(raw.inner, raw.pos))

CallPeek == Called("peek", 0, [inner |-> raw.inner, pos |-> raw.pos,
                               ret |-> peek(raw.inner, raw.pos)])

CallAdvance(n) == Called("advance", n, advance(raw.inner, raw.pos, n, raw.overflow_checks))

CallSlice == Called("slice", 0, slice(raw.inner, raw.pos))

CallSliceSkip(skip) == Called("slice_skip", skip, slice_skip(raw.inner, raw.pos, skip))

CallTakeUntil(c) == Called("take_until", c, take_until(raw.inner, raw.pos, c))

CallNewline(name) == Called(name, 0, newline_loop(name, raw.inner, raw.pos))

\* take_after_newline of the parser crate, on the cursor above
RECURSIVE take_after_newline(_, _)
take_after_newline(inner, pos) ==
    Only({ IF n.ret = <<"None">> THEN [n EXCEPT !.ret = <<"Err", "NewLine">>]
           ELSE IF n.ret = <<"Some", CR>> /\ peek(n.inner, n.pos) = <<"Some", LF>>
           THEN [slice(n.inner, n.pos) EXCEPT !.ret = <<"Ok">>]
           ELSE take_after_newline(n.inner, n.pos) :
           n \in {Iterator_next(inner, pos)} })

CallTakeAfterNewline ==
    Called("take_after_newline", 0, take_after_newline(raw.inner, raw.pos))

NextRaw ==
    \/ \E name \in {"discard_newline", "skip_newline"} : CallNewline(name)
    \/ CallTakeAfterNewline
    \/ CallNext
    \/ CallPeek
    \/ \E n \in Args : CallAdvance(n)
    \/ CallSlice
    \/ \E skip \in Args : CallSliceSkip(skip)
    \/ \E c \in Preds : CallTakeUntil(c)

SpecRaw == InitRaw /\ [][NextRaw]_vars

-----------------------------------------------------------------------------
(* H1Request::fill.  The reader is what it yields to the calls of read made *)
(* by one call of fill: some bytes, then the read that ends the loop.       *)

\* how the reads of one call of fill end: Ok(0), Err(WouldBlock), another Err
ReadEnds == {"eof", "wouldblock", "error"}

\* H1Request::fill: the buffer after the call and what the call returns
fill(d, bytes, end) ==
    [data |-> d \o bytes,
     ret |-> CASE end = "eof" -> <<"Ok", 0>>
               [] end = "wouldblock" ->
                      IF Len(bytes) = 0 THEN <<"Err", "WouldBlock">>
                      ELSE <<"Ok", Len(bytes)>>
               [] end = "error" -> <<"Err", "Other">>]

\* Vec::resize(new_len, 0)
resize(d, new_len) ==
    IF new_len <= Len(d) THEN Prefix(d, new_len)
    ELSE d \o [i \in 1..(new_len - Len(d)) |-> 0]

\* Read::read_exact(&mut buf) on a reader that holds the bytes avail: buf is
\* filled from its first byte on; with too few bytes the bytes there are are
\* stored and the call fails
read_exact(buf, avail) ==
    IF Len(avail) >= Len(buf)
    THEN [data |-> Prefix(avail, Len(buf)), used |-> Len(buf), ret |-> <<"Ok">>]
    ELSE [data |-> avail \o Slice(buf, Len(avail), Len(buf)), used |-> Len(avail),
          ret |-> <<"Err", "UnexpectedEof">>]

\* H1Request::fill_exact
fill_exact(d, avail, n) ==
    read_exact(resize(d, (IF Len(d) = 0 THEN 0 ELSE Len(d) - 1) + n), avail)

\* the n of the calls of fill_exact
ExactSizes == {0, 1, 2, 16}

InitFill ==
    /\ build = "scalar"
    /\ wire \in Wires
    /\ sent = 0
    /\ fills = 0
    /\ data = <<>>
    /\ complete = FALSE
    /\ method = "None"
    /\ target = <<>>
    /\ version = "None"
    /\ headers = <<"None">>
    /\ hdr_array = <<>>
    /\ result = NoResult
    /\ last_call = NoCall
    /\ conn = NoConn
    /\ raw = NoRaw
    /\ buffer = NoBuffer
    /\ session = NoSession
    /\ listener = NoListener

\* req.fill(&mut reader) with a reader that yields k bytes and then end
CallFill(k, end) ==
    /\ fills < MaxFills
    /\ sent + k <= Len(wire)
    /\ k = Len(wire) - sent \/ k <= MaxChunk
    /\ \E f \in {fill(data, SubSeq(wire, sent + 1, sent + k), end)} :
          /\ data' = f.data
          /\ result' = [kind |-> f.ret[1],
                        n |-> IF f.ret[1] = "Ok" THEN f.ret[2] ELSE 0,
                        err |-> IF f.ret[1] = "Err" THEN f.ret[2] ELSE "None",
                        at |-> 0, len |-> Len(f.data)]
    /\ sent' = sent + k
    /\ fills' = fills + 1
    /\ last_call' = [op |-> "fill", pos |-> k, nth |-> 1]
    /\ UNCHANGED <<buffer, session, listener, conn, raw, build, wire, complete, method, target, version, headers,
                   hdr_array>>

\* req.fill_exact(&mut reader, n) with a reader that holds a >= n bytes
CallFillExact(n, a) ==
    /\ fills < MaxFills
    /\ n <= a /\ sent + a <= Len(wire)
    /\ \E f \in {fill_exact(data, SubSeq(wire, sent + 1, sent + a), n)} :
          /\ data' = f.data
          /\ sent' = sent + f.used
          /\ result' = [kind |-> f.ret[1], n |-> 0,
                        err |-> IF f.ret[1] = "Err" THEN f.ret[2] ELSE "None",
                        at |-> 0, len |-> Len(f.data)]
    /\ fills' = fills + 1
    /\ last_call' = [op |-> "fill_exact", pos |-> n, nth |-> 1]
    /\ UNCHANGED <<buffer, session, listener, conn, raw, build, wire, complete, method,
                   target, version, headers, hdr_array>>

NextFill ==
    \/ \E k \in 0..Len(wire), end \in ReadEnds : CallFill(k, end)
    \/ \E n \in ExactSizes : \E a \in {n, Len(wire) - sent} : CallFillExact(n, a)

SpecFill == InitFill /\ [][NextFill]_vars

-----------------------------------------------------------------------------
(* One plaintext connection of a listener (connection.rs, multilistener.rs). *)
(* conn.state is the variant of PlainConnection::state; while it is Http11   *)
(* the request variables are its H1Request, and while it is None there is    *)
(* no request and they hold H1Request::default().  conn.open says that the   *)
(* connection is in the listener's table, and conn.interest is the interest  *)
(* its stream is registered with at the poller.                              *)

H2_PREFACE == <<80, 82, 73, SP, 42, SP, 72, 84, 84, 80, 47, 50>>

MaxEvents == 3

\* what the peer sends on the connection
ConnWires ==
    {BaseReqLine \o CRLF,
     BaseReqLine \o HL(<<104>>, <<SP>>, <<118>>, CRLF) \o CRLF,
     BaseReqLine \o CRLF \o BaseReqLine \o CRLF,
     <<120>> \o BaseReqLine \o CRLF,
     H2_PREFACE \o <<46, 48>> \o CRLF \o CRLF \o <<83, 77>> \o CRLF \o CRLF}

\* how many bytes are ready when a readable event is handled
ReadSizes == {0, 1, 4, 12, 16}

\* PlainConnection::event_set with a queue of that many responses
event_set(queued) == IF queued # 0 THEN {"READABLE", "WRITABLE"} ELSE {"READABLE"}

\* accept: PlainConnection::new, register with event_set(), connections.insert
InitConn ==
    /\ build \in Builds
    /\ wire \in ConnWires
    /\ sent = 0
    /\ fills = 0
    /\ data = <<>>
    /\ complete = FALSE
    /\ method = "None"
    /\ target = <<>>
    /\ version = "None"
    /\ headers = <<"None">>
    /\ hdr_array = <<>>
    /\ result = NoResult
    /\ last_call = NoCall
    /\ conn = [NoConn EXCEPT !.open = TRUE, !.interest = event_set(0)]
    /\ raw = NoRaw
    /\ buffer = NoBuffer
    /\ session = NoSession
    /\ listener = NoListener

\* PlainConnection::write drains the queued responses, whether or not the
\* stream takes them; the connection is not closed by it
AfterWrite(queued, writable) == IF writable THEN 0 ELSE queued

\* MultiListener::event for a readable event with k bytes ready, the reads
\* ending with end; writable says that the event is writable too
ReadableEvent(k, end, writable) ==
    /\ conn.open
    /\ fills < MaxEvents
    /\ sent + k <= Len(wire)
    /\ k \in ReadSizes \/ k = Len(wire) - sent
    /\ fills' = fills + 1
    /\ last_call' = [op |-> "event", pos |-> k, nth |-> 1]
    /\ \E chunk \in {SubSeq(wire, sent + 1, sent + k)} :
       IF conn.state = "None" /\ k >= 12 /\ Prefix(chunk, 12) = H2_PREFACE
       THEN \* read: state = H2, done, closed; close_connection removes it
            /\ conn' = [conn EXCEPT !.state = "H2", !.closed = TRUE, !.open = FALSE]
            /\ result' = NoResult
            /\ UNCHANGED <<sent, data, complete, method, target, version, headers, hdr_array>>
       ELSE \E f \in {fill(data, chunk, end)} :
            /\ sent' = sent + k
            /\ IF f.ret[1] = "Err"
               THEN \* read_result.is_err(): close_connection finds it not closed
                    /\ conn' = [conn EXCEPT !.state = "Http11"]
                    /\ data' = f.data
                    /\ result' = NoResult
                    /\ UNCHANGED <<complete, method, target, version, headers, hdr_array>>
               ELSE IF f.ret[2] = 0
               THEN \* done: closed, deregistered and removed
                    /\ conn' = [conn EXCEPT !.state = "Http11", !.closed = TRUE,
                                             !.open = FALSE]
                    /\ data' = f.data
                    /\ result' = NoResult
                    /\ UNCHANGED <<complete, method, target, version, headers, hdr_array>>
               ELSE \E r \in {parse(build, f.data)} :
                    /\ result' = [kind |-> r.kind, n |-> r.n, err |-> r.err, at |-> r.at,
                                  len |-> Len(f.data)]
                    /\ IF r.kind = "Err"
                       THEN /\ conn' = [conn EXCEPT !.state = "Http11",
                                           !.responses = AfterWrite(@, writable)]
                            /\ data' = f.data
                            /\ method' = IF r.method # "None" THEN r.method ELSE method
                            /\ target' = IF r.target # <<>> THEN r.target ELSE target
                            /\ version' = IF r.version # "None" THEN r.version ELSE version
                            /\ IF r.hset THEN headers' \in DanglingViews(r.hdrs)
                               ELSE headers' = headers
                            /\ hdr_array' = r.hdrs
                            /\ complete' = complete
                       ELSE \* prepare_response: the response is queued, state = None
                            /\ conn' = [conn EXCEPT !.state = "None",
                                           !.prepared = @ + 1,
                                           !.responses = AfterWrite(@ + 1, writable)]
                            /\ data' = <<>>
                            /\ method' = "None"
                            /\ target' = <<>>
                            /\ version' = "None"
                            /\ headers' = <<"None">>
                            /\ hdr_array' = <<>>
                            /\ complete' = FALSE
    /\ UNCHANGED <<buffer, session, listener, raw, build, wire>>

\* MultiListener::event for an event that is writable only
WritableEvent ==
    /\ conn.open
    /\ fills < MaxEvents
    /\ fills' = fills + 1
    /\ last_call' = [op |-> "event", pos |-> 0, nth |-> 1]
    /\ conn' = [conn EXCEPT !.responses = AfterWrite(@, TRUE)]
    /\ result' = NoResult
    /\ UNCHANGED <<buffer, session, listener, raw, build, wire, sent, data, complete, method, target, version, headers,
                   hdr_array>>

\* the events the poller delivers for a stream registered with interest:
\* <<is_readable, is_writable>>, at least one of them, none outside interest
Delivered(interest) ==
    {ev \in BOOLEAN \X BOOLEAN :
        /\ ev[1] \/ ev[2]
        /\ ev[1] => "READABLE" \in interest
        /\ ev[2] => "WRITABLE" \in interest}

\* no handler calls reregister: the interest stays the one of accept
NextConn ==
    \E ev \in Delivered(conn.interest), k \in 0..Len(wire), end \in ReadEnds :
        IF ev[1] THEN ReadableEvent(k, end, ev[2])
        ELSE k = 0 /\ end = "wouldblock" /\ WritableEvent

SpecConn == InitConn /\ [][NextConn]_vars

-----------------------------------------------------------------------------
(* The request grammar of spec.md section 3, as a recogniser that does not  *)
(* use the parser: what an input is, whatever parse makes of it.           *)

MethodNames ==
    {<<GET, "Get">>, <<PUT, "Put">>, <<POST, "Post">>, <<HEAD, "Head">>,
     <<TRACE, "Trace">>, <<DELETE, "Delete">>, <<OPTIONS, "Options">>,
     <<CONNECT, "Connect">>}

VersionNames == {<<H1_1, "H1_1">>, <<H1_0, "H1_0">>, <<H2, "H2">>, <<H3, "H3">>}

StartsWith(w, pos, lit) ==
    Len(w) >= pos + Len(lit) /\ Slice(w, pos, pos + Len(lit)) = lit

AllIn(w, a, b, class) == \A i \in a..(b - 1) : ScalarIs(class, At(w, i))

\* the request lines w can start with: method SP 1*target-byte SP version,
\* with the target range <<ts, te>> and the index eol right after the version
RequestLines(w) ==
    {[method |-> t[1][2], ts |-> Len(t[1][1]) + 1, te |-> t[3], version |-> t[2][2],
      eol |-> t[3] + 1 + Len(t[2][1])] :
        t \in {t \in MethodNames \X VersionNames \X (1..Len(w)) :
                   /\ StartsWith(w, 0, t[1][1] \o <<SP>>)
                   /\ t[3] > Len(t[1][1]) + 1
                   /\ AllIn(w, Len(t[1][1]) + 1, t[3], "target")
                   /\ StartsWith(w, t[3], <<SP>> \o t[2][1])}}

\* the indices at which a CRLF starts
CRLFs(w) == {i \in 0..(Len(w) - 2) : Slice(w, i, i + 2) = CRLF}

\* w[s..e) is name ":" OWS value with a non-empty name and a non-empty value
HeaderLineOK(w, s, e) ==
    \E c \in (s + 1)..(e - 2) :
        /\ AllIn(w, s, c, "name")
        /\ At(w, c) = COLON
        /\ \E o \in (c + 1)..(e - 1) :
              /\ \A i \in (c + 1)..(o - 1) : At(w, i) \in {SP, HTAB}
              /\ AllIn(w, o, e, "value")

\* w is exactly one request: a request line, CRLF, header lines each ended by
\* CRLF, and the CRLF of the blank line.  The records tell the fields and the
\* number of header lines.
Requests(w) ==
    {[method |-> rl.method, target |-> <<rl.ts, rl.te>>, version |-> rl.version,
      nlines |-> Cardinality(CRLFs(w)) - 2] :
        rl \in {rl \in RequestLines(w) :
            \E E \in {CRLFs(w)} :
                /\ rl.eol \in E
                /\ Len(w) - 2 \in E
                /\ Len(w) - 4 \in E
                /\ \A e \in E : (e > rl.eol /\ e < Len(w) - 2) =>
                      \E s \in {i + 2 : i \in {i \in E : i < e /\ \A j \in E : j < e => j <= i}} :
                          HeaderLineOK(w, s, e)}}

\* the last call of parse was made on data as it is now
Parsed == last_call.op = "parse" /\ result.len = Len(data)

-----------------------------------------------------------------------------
(* The claims *)

\* C1: when parse returned Complete(n) on an input of exactly n bytes, parse
\* on every strict prefix of that input returns Partial, never an error
\* (also on the prefix that ends with the lone CR of the blank line).
C1_StrictPrefixesArePartial ==
    (Parsed /\ result.kind = "Complete" /\ result.n = Len(data)) =>
        \A k \in 0..(Len(data) - 1) :
            \E x \in {Prefix(data, k)} : parse(build, x).kind = "Partial"

\* C2: on an input that is exactly one grammar-valid request parse returns
\* Complete(n) with n the length of the input, method and version are the
\* wire tokens, target is the byte range of the target, and complete is true.
C2_ValidRequestCompletes ==
    Parsed =>
        \A g \in Requests(data) :
            /\ result.kind = "Complete"
            /\ result.n = Len(data)
            /\ method = g.method
            /\ target = g.target
            /\ version = g.version
            /\ complete

\* C3: on a request with more well-formed header lines than the header array
\* holds (97 against 96) parse returns the Capacity error: it neither
\* completes with fewer headers nor aborts on the write of the 97th.
C3_OverflowIsCapacityError ==
    Parsed =>
        \A g \in Requests(data) :
            g.nlines > HEADERS_CAP =>
                result.kind = "Err" /\ result.err = "Capacity"

\* C4: when parse returned Complete(n) with fields F, parse on the first n
\* bytes followed by any bytes z returns Complete(n) with the same fields F
\* (z of 13, 14 and 30 bytes and a pipelined request among them).
C4_TrailingBytesIgnored ==
    (Parsed /\ result.kind = "Complete") =>
        \A z \in Trailers :
            \E y \in {Prefix(data, result.n) \o z} :
            \E r \in {parse(build, y)} :
                /\ r.kind = "Complete"
                /\ r.n = result.n
                /\ r.method = method
                /\ r.target = target
                /\ r.version = version
                /\ r.hdrs = hdr_array

\* ways to go on after a prefix of a request: the rest of a request line, of
\* a header line and of the blank line
Suffixes(w) == {SubSeq(w, i, Len(w)) : i \in 1..Len(w)}

CompletionSuffixes ==
    Suffixes(BaseReqLine \o HL(<<104>>, <<>>, <<118>>, CRLF) \o CRLF)
    \cup Suffixes(RL(GET, <<SP>>, Root, <<SP>>, H2, CRLF) \o CRLF)

\* C5: whenever parse returns Partial on x, some input that x is a strict
\* prefix of makes parse return Complete (also when x has fewer than 8 bytes,
\* or fewer than 8 bytes at the version).
C5_PartialHasCompletion ==
    (Parsed /\ result.kind = "Partial") =>
        \E y \in {wire} \cup {data \o s : s \in CompletionSuffixes} :
            /\ Len(y) > Len(data)
            /\ Prefix(y, Len(data)) = data
            /\ parse(build, y).kind = "Complete"

\* C6: when parse returned Partial on x, parse on any y that extends x returns
\* Partial, Complete, or an error decided by a byte at an index >= |x|.
\* (x is what data held at the last call, y is data now.)
C6_PrefixMonotone ==
    result.kind = "Partial" =>
        \E r \in {parse(build, data)} :
            \/ r.kind \in {"Partial", "Complete"}
            \/ r.kind = "Err" /\ r.at >= result.len

TargetErr == result.kind = "Err" /\ result.err = "Target"

\* the input starts with a method and SP, holds at least 8 bytes, and the byte
\* after the SP is not a request-target byte
EmptyTarget(w) ==
    /\ Len(w) >= 8
    /\ \E m \in MethodNames :
          /\ StartsWith(w, 0, m[1] \o <<SP>>)
          /\ ~ ScalarIs("target", At(w, Len(m[1]) + 1))

\* C7: a request line with an empty target makes parse return the Target
\* error, and parse never returns Complete with an empty target range.
C7_EmptyTargetIsTargetError ==
    Parsed =>
        /\ EmptyTarget(data) => TargetErr
        /\ result.kind = "Complete" => target[1] < target[2]

\* the input starts with a method and SP, holds at least 8 bytes, and its
\* non-empty target runs into a 0x7F, a byte >= 0x80, or a 0x20 that is not
\* the last SP of the request line
BadTargetByte(w) ==
    /\ Len(w) >= 8
    /\ \E m \in MethodNames :
          /\ StartsWith(w, 0, m[1] \o <<SP>>)
          /\ \E te \in (Len(m[1]) + 2)..(Len(w) - 1) :
                /\ AllIn(w, Len(m[1]) + 1, te, "target")
                /\ \/ At(w, te) = DEL
                   \/ At(w, te) >= 128
                   \/ /\ At(w, te) = SP
                      /\ \E j \in (te + 1)..(Len(w) - 1) :
                            /\ At(w, j) = SP
                            /\ \A i \in te..j : At(w, i) \notin {CR, LF}

\* C8: a target that contains a 0x20 other than the separator, a 0x7F or a
\* byte >= 0x80 makes parse return the Target error, no other kind.
C8_BadTargetByteIsTargetError ==
    (Parsed /\ BadTargetByte(data)) => TargetErr

NewLineErr == result.kind = "Err" /\ result.err = "NewLine"

\* the bytes at p are there and cannot be (the start of) a CRLF
NotCRLF(w, p) ==
    /\ p < Len(w)
    /\ At(w, p) # CR \/ (p + 1 < Len(w) /\ At(w, p + 1) # LF)

\* the index right after the value of the first header line
FirstValueEnds(w) ==
    {e \in 0..(Len(w) - 1) :
        /\ ~ ScalarIs("value", At(w, e))
        /\ \E rl \in RequestLines(w) :
              /\ StartsWith(w, rl.eol, CRLF)
              /\ HeaderLineOK(w, rl.eol + 2, e)}

\* where a header line or the blank line starts: after the CRLF of the
\* request line and after the CRLF of the first header line
LineStarts(w) ==
    {rl.eol + 2 : rl \in {rl \in RequestLines(w) : StartsWith(w, rl.eol, CRLF)}}
    \cup {e + 2 : e \in {e \in FirstValueEnds(w) : StartsWith(w, e, CRLF)}}

\* C9: a bare LF, or any byte other than CRLF, where CRLF is required makes
\* parse return the NewLine error: after the version, after a header line,
\* and at the end of the headers.
C9_NonCRLFIsNewLineError ==
    Parsed =>
        /\ \A rl \in RequestLines(data) : NotCRLF(data, rl.eol) => NewLineErr
        /\ \A e \in FirstValueEnds(data) : NotCRLF(data, e) => NewLineErr
        /\ \A s \in LineStarts(data) :
              (s < Len(data) /\ At(data, s) \in {CR, LF} /\ NotCRLF(data, s))
                  => NewLineErr

\* the first header line of w has a zero-length name: it starts with ":"
EmptyName(w) ==
    \E rl \in RequestLines(w) :
        /\ StartsWith(w, rl.eol, CRLF \o <<COLON>>)

\* the first header line of w has a zero-length value: after the name, the
\* colon and the whitespace comes a byte that is no header-value byte
EmptyValue(w) ==
    \E rl \in RequestLines(w) :
        /\ StartsWith(w, rl.eol, CRLF)
        /\ \E c \in (rl.eol + 3)..(Len(w) - 2) :
              /\ AllIn(w, rl.eol + 2, c, "name")
              /\ At(w, c) = COLON
              /\ \E o \in (c + 1)..(Len(w) - 1) :
                    /\ \A i \in (c + 1)..(o - 1) : At(w, i) \in {SP, HTAB}
                    /\ ~ ScalarIs("value", At(w, o))

\* C10: in every Complete result each stored header has a non-empty name of
\* tchar bytes and a non-empty value of header-value bytes; a zero-length
\* name yields the HeaderName error and a zero-length value the HeaderValue
\* error, however many bytes remain in the buffer.
C10_StoredHeadersNonEmpty ==
    Parsed =>
        /\ result.kind = "Complete" =>
              \A i \in 1..Len(hdr_array) :
                  /\ hdr_array[i].name[1] < hdr_array[i].name[2]
                  /\ AllIn(data, hdr_array[i].name[1], hdr_array[i].name[2], "name")
                  /\ hdr_array[i].value[1] < hdr_array[i].value[2]
                  /\ AllIn(data, hdr_array[i].value[1], hdr_array[i].value[2], "value")
        /\ EmptyName(data) => (result.kind = "Err" /\ result.err = "HeaderName")
        /\ EmptyValue(data) => (result.kind = "Err" /\ result.err = "HeaderValue")

OWSBytes == {SP, HTAB}

\* C11: the value range of every stored header starts at the first byte after
\* the ':' that is neither SP nor HTAB and ends before the SP/HTAB that
\* precede the CRLF: a stored value neither begins nor ends with SP or HTAB.
C11_ValueIsTrimmed ==
    Parsed =>
        \A i \in 1..Len(hdr_array) :
            \E nm \in {hdr_array[i].name}, v \in {hdr_array[i].value} :
                /\ v[1] < v[2] =>
                      /\ At(data, v[1]) \notin OWSBytes
                      /\ At(data, v[2] - 1) \notin OWSBytes
                /\ \A k \in (nm[2] + 1)..(v[1] - 1) : At(data, k) \in OWSBytes

\* at index p of w, where a single SP is required, stands a HTAB or a SP
\* that another SP follows
NotSingleSP(w, p) ==
    /\ p < Len(w)
    /\ At(w, p) = HTAB \/ (At(w, p) = SP /\ p + 1 < Len(w) /\ At(w, p + 1) = SP)

\* the input holds at least 8 bytes and has a HTAB or more than one SP after
\* the method or after the target
BadSeparator(w) ==
    /\ Len(w) >= 8
    /\ \E m \in MethodNames :
          /\ StartsWith(w, 0, m[1])
          /\ \/ NotSingleSP(w, Len(m[1]))
             \/ /\ At(w, Len(m[1])) = SP
                /\ \E te \in (Len(m[1]) + 2)..(Len(w) - 1) :
                      /\ AllIn(w, Len(m[1]) + 1, te, "target")
                      /\ NotSingleSP(w, te)

\* C12: between method and target and between target and version exactly
\* one SP is accepted: with a HTAB or with two or more SPs in either place the
\* request is never accepted, and it is rejected with an error once its
\* request line is there.
C12_SingleSPSeparators ==
    (Parsed /\ BadSeparator(data)) =>
        /\ result.kind # "Complete"
        /\ (\E i \in 1..Len(data) : data[i] = LF) => result.kind = "Err"

\* C13: on a buffer of at least 8 bytes parse_method returns Complete((L, m))
\* exactly when Method::try_from of the first L bytes is m, and the Method
\* error exactly when no prefix of 3 to 7 bytes is a method; no buffer starts
\* with two methods; on a buffer shorter than 8 bytes it returns Partial.
C13_ParseMethodIsTryFrom ==
    last_call.op = "parse_method" =>
        IF Len(data) < 8 THEN result.kind = "Partial"
        ELSE /\ \A L \in 3..7 : \A m \in {mn[2] : mn \in MethodNames} :
                   (result.kind = "Complete" /\ result.n = L /\ method = m)
                       <=> Method_try_from(Slice(data, 0, L)) = m
             /\ (result.kind = "Err" /\ result.err = "Method")
                   <=> \A L \in 3..7 : Method_try_from(Slice(data, 0, L)) = "Err"
             /\ Cardinality({L \in 3..7 : Method_try_from(Slice(data, 0, L)) # "Err"}) <= 1

\* parse_method was called on 8 or more bytes that start with OPTIONS not
\* followed by SP, and returned Options and 7
C13_Witness ==
    /\ last_call.op = "parse_method"
    /\ Len(data) >= 8
    /\ result.kind = "Complete" /\ result.n = 7 /\ method = "Options"
    /\ At(data, 7) # SP

\* C14: with at least 8 bytes at pos parse_version returns H1_1 or H1_0 and
\* pos + 8 exactly when the 8 bytes are that literal, H2 or H3 and pos + 6
\* exactly when the first 6 bytes are that literal, and the Version error
\* otherwise; with fewer than 8 bytes at pos it returns Partial.
C14_ParseVersionFourLiterals ==
    last_call.op = "parse_version" =>
        \E pos \in {last_call.pos} :
        IF Len(data) - pos < 8 THEN result.kind = "Partial"
        ELSE /\ \A L \in 1..8 : \A v \in {vn[2] : vn \in VersionNames} :
                   (result.kind = "Complete" /\ result.n = pos + L /\ version = v)
                       <=> (/\ Version_try_from(Slice(data, pos, pos + L)) = v
                            /\ L = (IF v \in {"H1_1", "H1_0"} THEN 8 ELSE 6))
             /\ (result.kind = "Err" /\ result.err = "Version")
                   <=> \A L \in {6, 8} : Version_try_from(Slice(data, pos, pos + L)) = "Err"
             /\ result.kind \in {"Complete", "Err"}

\* parse_version was called past the start of the buffer on HTTP/2 followed
\* by ".0", and returned H2 and pos + 6
C14_Witness ==
    /\ last_call.op = "parse_version"
    /\ Len(data) - last_call.pos >= 8
    /\ last_call.pos > 0
    /\ result.kind = "Complete" /\ version = "H2" /\ result.n = last_call.pos + 6
    /\ At(data, last_call.pos + 6) = 46

\* What a validator of width W returns on buf at pos when it consumes exactly
\* the longest prefix of bytes of class in the whole windows: Ok at the first
\* byte outside class, Err after the last whole window when there is none.
LongestPrefix(class, buf, pos, W) ==
    LET lim == pos + W * ((Len(buf) - pos) \div W)
        bad == {i \in pos..(lim - 1) : At(buf, i) \notin class}
    IN  IF bad = {} THEN [kind |-> "Err", n |-> lim]
        ELSE [kind |-> "Ok", n |-> CHOOSE i \in bad : \A j \in bad : i <= j]

WidthOf(name) == IF name \in Avx2Names THEN 32 ELSE 16

ConsumesLongestPrefix(class) ==
    [kind |-> result.kind, n |-> result.n]
        = LongestPrefix(class, data, last_call.pos, WidthOf(last_call.op))

\* the byte under test of the buffers of ScanBuffers is the only byte that is
\* not the letter "a"
TestedByteIn(S) == \E i \in 1..Len(data) : data[i] # 97 /\ data[i] \in S

VCHAR == 33..126

\* C15: whatever the byte, the batched request-target validators consume
\* exactly the longest prefix of bytes 0x21..0x7E and stop at the first byte
\* outside it.
C15_TargetValidatorIsVCHAR ==
    last_call.op \in {"parse_target_vectorized_avx2", "parse_target_vectorized_ssse3"}
        => ConsumesLongestPrefix(VCHAR)

FieldVchar == {b \in 0..255 : (b > 31 \/ b = 9) /\ b # 127}

\* C16: whatever the byte, the batched header-value validators consume
\* exactly the longest prefix of bytes b with (b > 0x1F or b = 0x09) and
\* b # 0x7F, b unsigned, so they pass over 0x80..0xFF.
C16_ValueValidatorIsUnsigned ==
    last_call.op \in {"validate_header_value_avx2", "validate_header_value_ssse3"}
        => ConsumesLongestPrefix(FieldVchar)

\* letters, digits and ! # $ % & ' * + - . ^ _ ` | ~
Tchar ==
    (65..90) \cup (97..122) \cup (48..57)
    \cup {33, 35, 36, 37, 38, 39, 42, 43, 45, 46, 94, 95, 96, 124, 126}

\* C17: whatever the byte, the batched header-name validators consume
\* exactly the longest prefix of tchar bytes of the whole windows, which is
\* where the scalar loop stops in them, and never pass the first invalid byte.
C17_NameValidatorIsTchar ==
    last_call.op \in {"validate_header_name_avx2", "validate_header_name_ssse3"} =>
        /\ ConsumesLongestPrefix(Tchar)
        /\ result.kind = "Ok" => result.n = scalar_scan("name", data, last_call.pos)
        /\ result.n <= scalar_scan("name", data, last_call.pos)

\* a header-name validator was called on a window with ":" in it and stopped
\* there, past the start of the window
C17_Witness ==
    /\ last_call.op \in {"validate_header_name_avx2", "validate_header_name_ssse3"}
    /\ TestedByteIn({COLON})
    /\ result.kind = "Ok"
    /\ result.n > last_call.pos
    /\ At(data, result.n) = COLON

InBounds(a, buf) == a[1] + a[2] <= Len(buf)

\* C18: every access to the buffer made during parse is in bounds: the 8-byte
\* loads, the 16- and 32-byte loads, the slices, the ":" check after a header
\* name and the CRLF lookahead; no index is out of range.
C18_ReadsInBounds ==
    Parsed =>
        /\ result.kind # "Panic"
        /\ \A a \in parse_reads(build, data) : InBounds(a, data)

\* parse made a 16-byte load that ends at the last byte of the buffer
C18_Witness ==
    /\ Parsed
    /\ \E a \in parse_reads(build, data) : a[2] = 16 /\ a[1] + 16 = Len(data)

RoundTrip(w, m, ts, te, v) ==
    /\ ts = Len(m) + 1
    /\ te > ts
    /\ Len(w) > te
    /\ StartsWith(w, 0, m)
    /\ At(w, Len(m)) = SP
    /\ \A i \in ts..(te - 1) : At(w, i) \in VCHAR
    /\ At(w, te) = SP
    /\ Slice(w, te + 1, Len(w)) = v \o CRLF \o CRLF

\* C20: the input m SP t SP v CRLF CRLF, t not empty and of bytes
\* 0x21..0x7E, parses to Complete with method m, the target range of t,
\* version v and no header.
C20_RequestLineRoundTrip ==
    Parsed =>
        \A mn \in MethodNames, vn \in VersionNames, te \in 1..Len(data) :
            RoundTrip(data, mn[1], Len(mn[1]) + 1, te, vn[1]) =>
                /\ result.kind = "Complete"
                /\ result.n = Len(data)
                /\ method = mn[2]
                /\ target = <<Len(mn[1]) + 1, te>>
                /\ version = vn[2]
                /\ hdr_array = <<>>

\* the requests whose header lines are name ":" SP value CRLF, with no
\* whitespace at the end of a value
CanonicalRequests ==
    {rl \o CRLF : rl \in ValidReqLines}
    \cup {BaseReqLine \o hb \o CRLF : hb \in CanonicalHeaderBlocks}

\* C21: a canonical request that was filled and parsed is written back by
\* Display byte for byte.
C21_DisplayRoundTrip ==
    (Parsed /\ data \in CanonicalRequests) =>
        fmt(data, method, target, version, headers) = <<"Ok", data>>

\* the index of the first byte c of w at or after index i (Len(w) if none)
RECURSIVE IndexOf(_, _, _)
IndexOf(w, c, i) == IF i >= Len(w) \/ At(w, i) = c THEN i ELSE IndexOf(w, c, i + 1)

\* the (name range, value range) of the header lines of a canonical request,
\* read off the bytes from index i on: name, ":", SP, value, CR, LF
RECURSIVE LineRanges(_, _, _)
LineRanges(w, i, acc) ==
    IF i >= Len(w) \/ At(w, i) = CR THEN acc
    ELSE LineRanges(w, IndexOf(w, CR, i) + 2,
                    Append(acc, Header(<<i, IndexOf(w, COLON, i)>>,
                                       <<IndexOf(w, COLON, i) + 2, IndexOf(w, CR, i)>>)))

\* C22: after parse returned Complete on a request with k header lines, the
\* headers field that the caller reads has k entries, the i-th being the
\* name range and the value range of the i-th line.
C22_HeadersFieldHoldsEveryLine ==
    (Parsed /\ result.kind = "Complete" /\ data \in CanonicalRequests) =>
        headers = <<"Some", LineRanges(data, IndexOf(data, CR, 0) + 2, <<>>)>>

\* C23: slice_skip(k) with k <= pos (slice() is k = 0) returns the first
\* pos - k bytes and rebases the cursor: pos is 0, the remaining input is the
\* bytes not yet iterated, so len() went down by the old pos; k = pos gives
\* the empty slice; with every byte iterated the cursor is left empty and
\* next() returns None.
C23_SliceSkipRebases ==
    [][(last_call'.op \in {"slice", "slice_skip"} /\ ~ ult(raw.pos, last_call'.pos)) =>
          /\ raw'.ret = <<IF last_call'.op = "slice" THEN "Bytes" ELSE "Ok",
                          Prefix(raw.inner, raw.pos - last_call'.pos)>>
          /\ (last_call'.pos = raw.pos => raw'.ret[2] = <<>>)
          /\ raw'.pos = 0
          /\ Len(raw'.inner) = Len(raw.inner) - raw.pos
          /\ raw'.inner = Slice(raw.inner, raw.pos, Len(raw.inner))
          /\ (raw.pos = Len(raw.inner) =>
                 /\ raw'.inner = <<>>
                 /\ Iterator_next(raw'.inner, raw'.pos).ret = <<"None">>)]_vars

\* C23 witness: slice_skip(1) after four next() on "GET / HTTP/1.1" returned
\* "GET" and left 10 bytes.
C23_Witness ==
    /\ last_call.op = "slice_skip" /\ last_call.pos = 1
    /\ Len(wire) = 14
    /\ raw.ret = <<"Ok", GET>>
    /\ raw.pos = 0 /\ Len(raw.inner) = 10

\* C24: slice_skip(k) with k > pos returns Err(Error::Skip), does not panic,
\* and leaves the cursor as it was.
C24_SliceSkipPastPosIsErr ==
    [][(last_call'.op = "slice_skip" /\ ult(raw.pos, last_call'.pos)) =>
          /\ raw'.ret = <<"Err", "Skip">>
          /\ raw'.inner = raw.inner
          /\ raw'.pos = raw.pos]_vars

\* C24 witness: slice_skip(3) after two next() on "GET / HTTP/1.1" returned
\* Err(Skip) with the cursor still at 2 of 14.
C24_Witness ==
    /\ last_call.op = "slice_skip" /\ last_call.pos = 3
    /\ raw.ret = <<"Err", "Skip">>
    /\ raw.pos = 2 /\ Len(raw.inner) = 14

\* C25: take_until(pred) stops at the first byte that matches, or at the end
\* of the buffer, and returns the bytes accumulated up to there when there
\* is at least one, none only when there is none.
C25_TakeUntilReturnsAccumulated ==
    [][last_call'.op = "take_until" =>
          \E acc \in {Prefix(raw.inner, IndexOf(raw.inner, last_call'.pos, raw.pos))} :
              raw'.ret = IF acc = <<>> THEN <<"None">> ELSE <<"Some", acc>>]_vars

\* C26: whatever the calls, 0 <= pos <= len; advance(k) sets pos to
\* min(pos + k, len) and never moves it backwards; next() at the end returns
\* None and leaves pos as it was.
C26_CursorStaysInBounds ==
    /\ [](raw.pos \in 0..Len(raw.inner))
    /\ [][last_call'.op = "advance" =>
             /\ raw'.pos = IF last_call'.pos < 0 \/ raw.pos + last_call'.pos > Len(raw.inner)
                           THEN Len(raw.inner) ELSE raw.pos + last_call'.pos
             /\ raw'.pos >= raw.pos]_vars
    /\ [][(last_call'.op = "next" /\ raw.pos = Len(raw.inner)) =>
             raw'.ret = <<"None">> /\ raw'.pos = raw.pos]_vars

\* C27: fill returns the number of bytes it appended in that call: the bytes
\* the reader yielded are appended in order, a reader that yields n > 0
\* bytes and then the end of the stream gives Ok(n), and Ok(0) is returned
\* only when no byte was read.
C27_FillReturnsBytesAppended ==
    [][last_call'.op = "fill" =>
          /\ data' = data \o SubSeq(wire, sent + 1, sent + last_call'.pos)
          /\ (result'.kind = "Ok" => result'.n = last_call'.pos)]_vars

\* C28: when parse returns Partial the handler queues no response and keeps
\* the request with the bytes it has buffered, for the next read to append
\* to; a response is prepared only when parse returned Complete.
C28_PartialKeepsRequest ==
    [][last_call'.op = "event" =>
          /\ (result'.kind = "Partial" =>
                 /\ conn'.prepared = conn.prepared
                 /\ conn'.state = "Http11"
                 /\ Len(data') = result'.len
                 /\ data' = SubSeq(wire, sent' - result'.len + 1, sent'))
          /\ (conn'.prepared > conn.prepared => result'.kind = "Complete")]_vars

\* C29: when parse returns an error the handler ends the connection: it is
\* closed and no longer in the listener's table.
C29_ErrorClosesConnection ==
    (last_call.op = "event" /\ result.kind = "Err") => (conn.closed /\ ~ conn.open)

\* C30: after parse returned Complete(n) and the response was prepared, the
\* bytes read after the n consumed ones are the buffer the next parse uses.
C30_PipelinedBytesAreKept ==
    (last_call.op = "event" /\ result.kind = "Complete") =>
        data = SubSeq(wire, sent - (result.len - result.n) + 1, sent)

\* C31: a response queued by prepare_response is written: once the handler
\* of the readable event has returned with a response in the queue, the
\* stream is registered for write interest, so that a writable event comes
\* and write() drains the queue.
C31_QueuedResponseHasWriteInterest ==
    (conn.open /\ conn.responses > 0) => "WRITABLE" \in conn.interest

\* there is a CR LF pair in w at or after index i
HasCRLF(w, i) == \E j \in i..(Len(w) - 2) : At(w, j) = CR /\ At(w, j + 1) = LF

\* C32: discard_newline and skip_newline return on every finite input, also
\* when the remaining bytes hold no CR LF pair.
C32_NewlineLoopsReturn ==
    last_call.op \in {"discard_newline", "skip_newline"} => raw.ret = <<"Unit">>

\* C33: fill_exact(reader, n) with a reader that can supply n bytes succeeds
\* and appends exactly the next n bytes of the reader: the buffer is the old
\* buffer followed by them, whether or not the old buffer was empty.
C33_FillExactAppends ==
    [][last_call'.op = "fill_exact" =>
          /\ result'.kind = "Ok"
          /\ data' = data \o SubSeq(wire, sent + 1, sent + last_call'.pos)]_vars

\* ---------------------------------------------------------------------
\* Buffer (first/buffer.rs): a record of the struct's fields; mem is the
\* allocation, cap bytes long, a byte that was never stored being UNINIT
\* ---------------------------------------------------------------------

UNINIT == 256

\* usize::next_power_of_two
RECURSIVE next_power_of_two(_)
next_power_of_two(n) == IF n <= 1 THEN 1 ELSE 2 * next_power_of_two((n + 1) \div 2)

\* alloc::alloc of n bytes
alloc(n) == [i \in 1..n |-> UNINIT]

\* alloc::realloc of the allocation mem to n bytes
realloc(mem, n) == IF n <= Len(mem) THEN Prefix(mem, n) ELSE mem \o alloc(n - Len(mem))

\* Buffer::remaining
remaining(b) == b.write_offset - b.read_offset

\* Buffer::remaining_mut
remaining_mut(b) == b.cap - b.write_offset

\* <Buffer as Deref>::deref: the readable slice
deref(b) == Slice(b.mem, b.read_offset, b.write_offset)

\* Buffer::grow_to_capacity; a capacity over isize::MAX fails the assertion
grow_to_capacity(b, capacity) ==
    IF capacity < 0 THEN [b |-> b, ret |-> <<"Panic">>]
    ELSE [b |-> [b EXCEPT !.cap = next_power_of_two(capacity),
                          !.mem = IF b.cap = 0 THEN alloc(next_power_of_two(capacity))
                                  ELSE realloc(b.mem, next_power_of_two(capacity))],
          ret |-> <<"Unit">>]

\* Buffer::grow
grow(b) == grow_to_capacity(b, IF b.cap = 0 THEN b.desired_capcity ELSE 2 * b.cap)

\* Buffer::new
Buffer_new(desired_capacity) ==
    IF desired_capacity > 0
    THEN grow([EmptyBuffer EXCEPT !.desired_capcity = 2]).b
    ELSE [EmptyBuffer EXCEPT !.desired_capcity = next_power_of_two(desired_capacity)]

\* Buffer::reserve; self.cap + capacity wraps without overflow checks
reserve(b, capacity, checks) ==
    IF add_overflows(b.cap, capacity) /\ checks THEN [b |-> b, ret |-> <<"Panic">>]
    ELSE grow_to_capacity(b, b.cap + capacity)

\* Buffer::clear
clear(b) ==
    IF b.cap > b.desired_capcity
    THEN [b EXCEPT !.read_offset = 0, !.write_offset = 0,
                   !.mem = realloc(b.mem, b.desired_capcity), !.cap = b.desired_capcity]
    ELSE [b EXCEPT !.read_offset = 0, !.write_offset = 0]

\* Buffer::compact
compact(b) ==
    IF remaining(b) = 0 THEN clear(b)
    ELSE IF b.cap = b.desired_capcity THEN b
    ELSE IF b.read_offset > b.desired_capcity
    THEN [b EXCEPT !.mem = [i \in 1..Len(b.mem) |->
                               IF i <= remaining(b) THEN b.mem[b.read_offset + i]
                               ELSE b.mem[i]],
                   !.write_offset = remaining(b),
                   !.read_offset = 0]
    ELSE b

\* Buffer::mark_read; self.read_offset + amount wraps without overflow checks
mark_read(b, amount, checks) ==
    IF add_overflows(b.read_offset, amount) /\ checks THEN [b |-> b, ret |-> <<"Panic">>]
    ELSE [b |-> compact([b EXCEPT !.read_offset =
                            IF ult(b.read_offset + amount, b.write_offset)
                            THEN b.read_offset + amount ELSE b.write_offset]),
          ret |-> <<"Unit">>]

\* Buffer::mark_written; self.write_offset + amount wraps without overflow checks
mark_written(b, amount, checks) ==
    IF add_overflows(b.write_offset, amount) /\ checks THEN [b |-> b, ret |-> <<"Panic">>]
    ELSE [b |-> [b EXCEPT !.write_offset =
                    IF ult(b.write_offset + amount, b.cap)
                    THEN b.write_offset + amount ELSE b.cap],
          ret |-> <<"Unit">>]

\* self.deref_mut()[0..buf.len()].clone_from_slice(buf)
clone_from_slice(b, buf) ==
    [b EXCEPT !.mem = [i \in 1..Len(b.mem) |->
                          IF i > b.write_offset /\ i <= b.write_offset + Len(buf)
                          THEN buf[i - b.write_offset] ELSE b.mem[i]]]

\* <Buffer as Write>::write
Buffer_write(b, buf, checks) ==
    Only({ IF r.ret = <<"Panic">> THEN r
           ELSE [b |-> mark_written(clone_from_slice(r.b, buf), Len(buf), checks).b,
                 ret |-> <<"Ok", Len(buf)>>] :
           r \in {IF remaining_mut(b) < Len(buf) THEN reserve(b, Len(buf), checks)
                  ELSE [b |-> b, ret |-> <<"Unit">>]} })

\* the largest capacity of the buffers
MaxCap == 4

\* the desired capacities of Buffer::new
Desired == {0, 1, 2, 3, 16}

\* the slices written
Payloads == {<<>>, <<97>>, <<98, 99>>}

\* the amounts marked and reserved
Amounts == 0..3 \cup {USIZE_MAX}

\* the offsets are those of a slice of the allocation
InAllocation(b) ==
    /\ 0 <= b.read_offset /\ b.read_offset <= b.write_offset /\ b.write_offset <= b.cap
    /\ Len(b.mem) = b.cap

InitBuffer ==
    /\ build = "scalar"
    /\ wire = <<>>
    /\ sent = 0
    /\ fills = 0
    /\ data = <<>>
    /\ complete = FALSE
    /\ method = "None"
    /\ target = <<>>
    /\ version = "None"
    /\ headers = <<"None">>
    /\ hdr_array = <<>>
    /\ result = NoResult
    /\ last_call = NoCall
    /\ conn = NoConn
    /\ raw = NoRaw
    /\ \E d \in Desired, oc \in BOOLEAN :
          buffer = [b |-> Buffer_new(d), queue |-> <<>>, d |-> d, ret |-> <<"None">>,
                    overflow_checks |-> oc]
    /\ session = NoSession
    /\ listener = NoListener

\* the buffer after a call that left r, queue being the bytes written and not
\* yet marked read; no call is made after a panic, nor on offsets that left
\* the allocation
BufferCalled(op, arg, r, queue) ==
    /\ buffer.ret # <<"Panic">>
    /\ InAllocation(buffer.b)
    /\ r.b.cap <= MaxCap
    /\ buffer' = [buffer EXCEPT !.b = r.b, !.ret = r.ret,
                                !.queue = IF r.ret = <<"Panic">> THEN buffer.queue ELSE queue]
    /\ last_call' = [op |-> op, pos |-> arg, nth |-> 1]
    /\ UNCHANGED <<session, listener, conn, raw, build, wire, sent, fills, data, complete,
                   method, target, version, headers, hdr_array, result>>

\* buffer.write(buf)
CallWrite(buf) ==
    BufferCalled("write", Len(buf), Buffer_write(buffer.b, buf, buffer.overflow_checks),
                 buffer.queue \o buf)

\* buffer.mark_read(amount)
CallMarkRead(amount) ==
    BufferCalled("mark_read", amount, mark_read(buffer.b, amount, buffer.overflow_checks),
                 IF ult(amount, Len(buffer.queue))
                 THEN Slice(buffer.queue, amount, Len(buffer.queue)) ELSE <<>>)

\* buffer.mark_written(amount): the bytes written are from then on the
\* readable slice, whatever the write region held
CallMarkWritten(amount) ==
    BufferCalled("mark_written", amount,
                 mark_written(buffer.b, amount, buffer.overflow_checks),
                 deref(mark_written(buffer.b, amount, buffer.overflow_checks).b))

\* buffer.reserve(capacity)
CallReserve(capacity) ==
    BufferCalled("reserve", capacity, reserve(buffer.b, capacity, buffer.overflow_checks),
                 buffer.queue)

NextBuffer ==
    \/ \E buf \in Payloads : CallWrite(buf)
    \/ \E amount \in Amounts : CallMarkRead(amount)
    \/ \E amount \in Amounts : CallMarkWritten(amount)
    \/ \E capacity \in Amounts : CallReserve(capacity)

SpecBuffer == InitBuffer /\ [][NextBuffer]_vars

\* C34: the buffer is a FIFO queue of bytes: after every call the readable
\* slice is the bytes written, in order, less the amounts marked read, and
\* write(buf) returns Ok(buf.len()).
C34_BufferIsFifo ==
    (buffer.ret # <<"Panic">> /\ InAllocation(buffer.b)) =>
        /\ deref(buffer.b) = buffer.queue
        /\ last_call.op = "write" => buffer.ret = <<"Ok", last_call.pos>>

\* C35: in every state of a buffer read_offset <= write_offset <= cap, the
\* allocation being cap bytes long: mark_read and mark_written clamp.
C35_OffsetsStayInAllocation == InAllocation(buffer.b)

\* C36: Buffer::new(d) with d > 0 allocates d rounded up to the next power
\* of two, and that is the capacity clear() shrinks a drained buffer to.
C36_NewAllocatesDesired ==
    buffer.d > 0 =>
        /\ buffer.b.desired_capcity = next_power_of_two(buffer.d)
        /\ last_call.op = "none" => buffer.b.cap = next_power_of_two(buffer.d)
        /\ (last_call.op = "mark_read" /\ buffer.ret = <<"Unit">> /\ remaining(buffer.b) = 0)
              => buffer.b.cap <= next_power_of_two(buffer.d)

\* ---------------------------------------------------------------------
\* Session (server/src/sessions.rs): the stream, as the bytes written to
\* it, and the two buffers
\* ---------------------------------------------------------------------

BUFFER_CAPACITY == 16384

\* Session::new, by <Session as From<(TcpStream, SocketAddr)>>::from
Session_new ==
    [read_buffer |-> Buffer_new(BUFFER_CAPACITY), write_buffer |-> Buffer_new(BUFFER_CAPACITY),
     stream |-> <<>>, ret |-> <<"None">>, overflow_checks |-> FALSE]

\* the loop of Session::fill on the buffer b, the stream holding the bytes
\* incoming and then blocking; read is the count so far
RECURSIVE fill_loop(_, _, _, _)
fill_loop(b, incoming, read, checks) ==
    IF remaining_mut(b) < remaining(b) /\ checks THEN [b |-> b, ret |-> <<"Panic">>]
    ELSE Only({
        IF r.ret = <<"Panic">> THEN r
        ELSE IF remaining_mut(r.b) = 0 THEN [b |-> r.b, ret |-> <<"Ok", 0>>]
        ELSE IF incoming = <<>>
        THEN [b |-> r.b, ret |-> IF read = 0 THEN <<"Err", "WouldBlock">> ELSE <<"Ok", read>>]
        ELSE Only({ fill_loop(mark_written(clone_from_slice(r.b, Prefix(incoming, n)), n, checks).b,
                              Slice(incoming, n, Len(incoming)), read + n, checks) :
                    n \in {IF Len(incoming) < remaining_mut(r.b) THEN Len(incoming)
                           ELSE remaining_mut(r.b)} }) :
        r \in {IF remaining_mut(b) >= remaining(b) /\ remaining_mut(b) - remaining(b) < 4096
               THEN reserve(b, 16384, checks)
               ELSE [b |-> b, ret |-> <<"Unit">>]} })

\* the outcomes of one stream.write(&buf): all the bytes or one of them
\* taken, or an error
WriteOutcomes == {"all", "one", "WouldBlock", "Interrupted", "Other"}

\* the loop of Session::flush on the buffer b it locked; script is the
\* outcomes of the calls of stream.write, the stream blocking after them
RECURSIVE flush_loop(_, _, _, _, _)
flush_loop(b, stream, flushed, script, checks) ==
    IF remaining(b) = 0 THEN [b |-> b, stream |-> stream, ret |-> <<"Ok", flushed>>]
    ELSE IF script = <<>> \/ Head(script) = "WouldBlock"
    THEN [b |-> b, stream |-> stream,
          ret |-> IF flushed = 0 THEN <<"Err", "WouldBlock">> ELSE <<"Ok", flushed>>]
    ELSE IF Head(script) = "Interrupted" THEN flush_loop(b, stream, flushed, Tail(script), checks)
    ELSE IF Head(script) = "Other" THEN [b |-> b, stream |-> stream, ret |-> <<"Err", "Other">>]
    ELSE Only({ flush_loop(mark_read(b, amt, checks).b, stream \o Prefix(deref(b), amt),
                           flushed + amt, Tail(script), checks) :
                amt \in {IF Head(script) = "all" THEN remaining(b) ELSE 1} })

\* Session::flush: the buffer locked with the stream is self.read_buffer
flush(s, script, checks) ==
    Only({ [s EXCEPT !.read_buffer = r.b, !.stream = r.stream, !.ret = r.ret] :
           r \in {flush_loop(s.read_buffer, s.stream, 0, script, checks)} })

\* the calls of fill and flush of a session
MaxCalls == 3

\* the bytes a fill finds on the stream
Incoming == {<<>>, <<71>>, <<71, 69>>}

\* the outcomes of the calls of stream.write of a flush
Scripts ==
    {<<>>} \cup {<<o>> : o \in WriteOutcomes} \cup {<<"one", o>> : o \in WriteOutcomes}

InitSession ==
    /\ build = "scalar"
    /\ wire = <<>>
    /\ sent = 0
    /\ fills = 0
    /\ data = <<>>
    /\ complete = FALSE
    /\ method = "None"
    /\ target = <<>>
    /\ version = "None"
    /\ headers = <<"None">>
    /\ hdr_array = <<>>
    /\ result = NoResult
    /\ last_call = NoCall
    /\ conn = NoConn
    /\ raw = NoRaw
    /\ buffer = NoBuffer
    /\ \E oc \in BOOLEAN : session = [Session_new EXCEPT !.overflow_checks = oc]
    /\ listener = NoListener

\* the session after a call that left s
SessionCalled(op, s) ==
    /\ fills < MaxCalls
    /\ session.ret # <<"Panic">>
    /\ session' = s
    /\ fills' = fills + 1
    /\ last_call' = [op |-> op, pos |-> 0, nth |-> 1]
    /\ UNCHANGED <<buffer, listener, conn, raw, build, wire, sent, data, complete, method,
                   target, version, headers, hdr_array, result>>

\* session.fill() (Listener::session_event)
CallSessionFill(incoming) ==
    SessionCalled("fill",
        Only({ [session EXCEPT !.read_buffer = r.b, !.ret = r.ret] :
               r \in {fill_loop(session.read_buffer, incoming, 0, session.overflow_checks)} }))

\* session.flush() (Listener::close)
CallFlush(script) == SessionCalled("flush", flush(session, script, session.overflow_checks))

NextSession ==
    \/ \E incoming \in Incoming : CallSessionFill(incoming)
    \/ \E script \in Scripts : CallFlush(script)

SpecSession == InitSession /\ [][NextSession]_vars

\* C37: flush writes to the stream pending bytes of the write buffer, marks
\* them read in the write buffer and leaves the read buffer as it was.
C37_FlushDrainsWriteBuffer ==
    [][last_call'.op = "flush" =>
          /\ session'.read_buffer = session.read_buffer
          /\ Len(session'.stream) - Len(session.stream) <= remaining(session.write_buffer)
          /\ session'.stream = session.stream \o
                 Prefix(deref(session.write_buffer), Len(session'.stream) - Len(session.stream))
          /\ deref(session'.write_buffer) =
                 Slice(deref(session.write_buffer), Len(session'.stream) - Len(session.stream),
                       remaining(session.write_buffer))]_vars

\* ---------------------------------------------------------------------
\* Listener and MultiListener (listener.rs, multilistener.rs) with the
\* workers (worker.rs). connections is the slab: slot token + 1 holds the
\* number of the connection stored under token, 0 when vacant; free is the
\* slab's list of vacant keys. objects are the connections ever accepted
\* (an Arc keeps a removed one alive for the events in flight), workers the
\* events sent to the workers and not yet processed, as connection
\* numbers, closed_connections the channel of tokens, each with the
\* connection the worker held when it sent it.
\* ---------------------------------------------------------------------

\* the connections accepted in a run
MaxConns == 3

\* the events and notifications in flight at a time
MaxInFlight == 2

\* Slab::get(token)
Slab_get(connections, token) ==
    IF token < Len(connections) THEN connections[token + 1] ELSE 0

\* Slab::vacant_entry().key()
vacant_key(l) == IF l.free # <<>> THEN Head(l.free) ELSE Len(l.connections)

\* Listener::accept and MultiListener::accept on one pending stream: the
\* connection is registered under the vacant key and inserted there
accept(l) ==
    [l EXCEPT !.objects = Append(@, [closed |-> FALSE, registered |-> TRUE,
                                     token |-> vacant_key(l)]),
              !.connections = IF l.free # <<>>
                              THEN [@ EXCEPT ![vacant_key(l) + 1] = Len(l.objects) + 1]
                              ELSE Append(@, Len(l.objects) + 1),
              !.free = IF l.free # <<>> THEN Tail(@) ELSE @]

\* Connection::deregister
deregister(l, id) == [l EXCEPT !.objects[id].registered = FALSE]

\* Slab::try_remove(token)
try_remove(l, token) ==
    IF Slab_get(l.connections, token) = 0 THEN l
    ELSE [l EXCEPT !.connections[token + 1] = 0, !.free = <<token>> \o @]

\* close_connection without the test of is_closed()
close_connection_unchecked(l, token) ==
    IF Slab_get(l.connections, token) # 0
    THEN try_remove(deregister(l, Slab_get(l.connections, token)), token)
    ELSE l

\* Listener::close_connection, MultiListener::close_connection
close_connection(l, token) ==
    IF Slab_get(l.connections, token) # 0 /\ l.objects[Slab_get(l.connections, token)].closed
    THEN try_remove(deregister(l, Slab_get(l.connections, token)), token)
    ELSE l

\* the WAKE_TOKEN loop of Listener::run: close_connection on every token of
\* the channel, until try_recv finds it empty
RECURSIVE drain(_, _)
drain(l, channel) ==
    IF channel = <<>> THEN l ELSE drain(close_connection(l, Head(channel)[1]), Tail(channel))

InitListener ==
    /\ build = "scalar"
    /\ wire = <<>>
    /\ sent = 0
    /\ fills = 0
    /\ data = <<>>
    /\ complete = FALSE
    /\ method = "None"
    /\ target = <<>>
    /\ version = "None"
    /\ headers = <<"None">>
    /\ hdr_array = <<>>
    /\ result = NoResult
    /\ last_call = NoCall
    /\ conn = NoConn
    /\ raw = NoRaw
    /\ buffer = NoBuffer
    /\ session = NoSession
    /\ \E kind \in {"Listener", "MultiListener"} : listener = [NoListener EXCEPT !.kind = kind]

\* the listener after a handler that left l
ListenerDid(op, token, l) ==
    /\ listener' = l
    /\ last_call' = [op |-> op, pos |-> token, nth |-> 1]
    /\ UNCHANGED <<buffer, session, conn, raw, build, wire, sent, fills, data, complete,
                   method, target, version, headers, hdr_array, result>>

\* a LISTEN_TOKEN event with one stream to accept
Accept ==
    /\ Len(listener.objects) < MaxConns
    /\ ListenerDid("accept", vacant_key(listener), accept(listener))

\* Listener::event: an event of the poll for token is sent to the workers
\* with the connection the slab holds there
ListenerEvent(token) ==
    /\ listener.kind = "Listener"
    /\ Len(listener.workers) + Len(listener.closed_connections) < MaxInFlight
    /\ ListenerDid("event", token,
                   IF Slab_get(listener.connections, token) # 0
                   THEN [listener EXCEPT !.workers =
                            Append(@, Slab_get(listener.connections, token))]
                   ELSE listener)

\* Worker::run on the i-th event in flight: the connection is read, which
\* closes it or not, and the listener is informed of its token
WorkerRun(i, closes) ==
    /\ i \in 1..Len(listener.workers)
    /\ ListenerDid("worker", listener.objects[listener.workers[i]].token,
                   [listener EXCEPT
                       !.objects[listener.workers[i]].closed = @ \/ closes,
                       !.workers = Prefix(@, i - 1) \o Slice(@, i, Len(@)),
                       !.closed_connections =
                           Append(@, <<listener.objects[listener.workers[i]].token,
                                       listener.workers[i]>>)])

\* the WAKE_TOKEN event of Listener::run
Wake ==
    /\ listener.closed_connections # <<>>
    /\ ListenerDid("wake", 0,
                   [drain(listener, listener.closed_connections) EXCEPT
                       !.closed_connections = <<>>,
                       !.drained = listener.closed_connections])

\* MultiListener::event: the connection under token is read, which closes it
\* or not, and close_connection is called when it is closed
MultiEvent(token, closes) ==
    /\ listener.kind = "MultiListener"
    /\ ListenerDid("multi_event", token,
                   IF Slab_get(listener.connections, token) = 0 THEN listener
                   ELSE IF closes \/ listener.objects[Slab_get(listener.connections, token)].closed
                   THEN close_connection(
                            [listener EXCEPT
                                !.objects[Slab_get(listener.connections, token)].closed = TRUE],
                            token)
                   ELSE listener)

NextListener ==
    \/ Accept
    \/ \E token \in 0..(MaxConns - 1) : ListenerEvent(token)
    \/ \E i \in 1..MaxInFlight, closes \in BOOLEAN : WorkerRun(i, closes)
    \/ Wake
    \/ \E token \in 0..(MaxConns - 1), closes \in BOOLEAN : MultiEvent(token, closes)

SpecListener == InitListener /\ [][NextListener]_vars

\* C38: a connection leaves the table only when it reports is_closed(), and
\* it is deregistered by then; a notification for a token whose connection
\* is open, or which holds none, leaves the table as it was, also when the
\* token was given to a connection accepted later.
C38_OnlyClosedConnectionsAreRemoved ==
    [][\A token \in 0..(Len(listener.connections) - 1) :
          (/\ Slab_get(listener.connections, token) # 0
           /\ Slab_get(listener'.connections, token) # Slab_get(listener.connections, token))
          => /\ listener'.objects[Slab_get(listener.connections, token)].closed
             /\ ~listener'.objects[Slab_get(listener.connections, token)].registered
             /\ Slab_get(listener'.connections, token) = 0]_vars

\* C38 witness: the listener drained a notification for a token sent on
\* behalf of a connection that was removed, the token being that of an open
\* connection accepted later, which is still in the table.
C38_Witness ==
    /\ last_call.op = "wake"
    /\ \E i \in 1..Len(listener.drained) :
          /\ Slab_get(listener.connections, listener.drained[i][1]) > listener.drained[i][2]
          /\ ~listener.objects[Slab_get(listener.connections, listener.drained[i][1])].closed
          /\ ~listener.objects[listener.drained[i][2]].registered

\* the index of the CR of the first CR LF pair of w at or after index i
FirstCRLF(w, i) ==
    CHOOSE j \in i..(Len(w) - 2) :
        /\ At(w, j) = CR /\ At(w, j + 1) = LF
        /\ \A k \in i..(j - 1) : ~(At(w, k) = CR /\ At(w, k + 1) = LF)

\* C39: with a CR LF pair in the remaining input take_after_newline returns
\* Ok and the remaining input begins at the byte after the LF of the first
\* pair; without one it returns the NewLine error.
C39_TakeAfterNewlineConsumesPair ==
    [][last_call'.op = "take_after_newline" =>
          IF HasCRLF(raw.inner, raw.pos)
          THEN /\ raw'.ret = <<"Ok">>
               /\ Slice(raw'.inner, raw'.pos, Len(raw'.inner)) =
                      Slice(raw.inner, FirstCRLF(raw.inner, raw.pos) + 2, Len(raw.inner))
          ELSE raw'.ret = <<"Err", "NewLine">>]_vars

\* ---------------------------------------------------------------------
\* get_non_whitespace_pos of the parser crate (parser/src/h1/mod.rs)
\* ---------------------------------------------------------------------

\* get_non_whitespace_pos(buf, start): pos is the index of the byte that
\* buf_iter.next() yields, the function's pos being one more once it is read
RECURSIVE get_non_whitespace_pos(_, _)
get_non_whitespace_pos(buf, pos) ==
    IF pos >= Len(buf) THEN <<"None">>
    ELSE IF At(buf, pos) = CR /\ peek(buf, pos + 1) = <<"Some", LF>>
    THEN <<"Some", (pos + 1) - 1>>
    ELSE IF /\ At(buf, pos) # SP
            /\ At(buf, pos) # HTAB
            /\ ~(At(buf, pos) >= 17 /\ At(buf, pos) <= CR)
    THEN <<"Some", pos + 1>>
    ELSE get_non_whitespace_pos(buf, pos + 1)

\* the longest buffer searched
MaxBuf == 3

\* the bytes of the buffers: SP, HTAB, VT, FF, CR, LF and a letter
SpaceBytes == {SP, HTAB, 11, 12, CR, LF, 97}

SpaceBuffers == UNION { [1..n -> SpaceBytes] : n \in 0..MaxBuf }

InitSpace ==
    /\ build = "scalar"
    /\ wire \in SpaceBuffers
    /\ sent = Len(wire)
    /\ fills = 0
    /\ data = <<>>
    /\ complete = FALSE
    /\ method = "None"
    /\ target = <<>>
    /\ version = "None"
    /\ headers = <<"None">>
    /\ hdr_array = <<>>
    /\ result = NoResult
    /\ last_call = NoCall
    /\ conn = NoConn
    /\ raw = [NoRaw EXCEPT !.inner = wire]
    /\ buffer = NoBuffer
    /\ session = NoSession
    /\ listener = NoListener

\* get_non_whitespace_pos(buf, start)
CallGetNonWhitespacePos(start) ==
    /\ raw' = [raw EXCEPT !.ret = get_non_whitespace_pos(raw.inner, start)]
    /\ last_call' = [op |-> "get_non_whitespace_pos", pos |-> start, nth |-> 1]
    /\ UNCHANGED <<buffer, session, listener, conn, build, wire, sent, fills, data, complete,
                   method, target, version, headers, hdr_array, result>>

NextSpace == \E start \in 0..(MaxBuf + 1) : CallGetNonWhitespacePos(start)

SpecSpace == InitSpace /\ [][NextSpace]_vars

\* the byte at index i of buf is whitespace: SP, HTAB, VT, FF, or a CR that
\* no LF follows
IsWhitespaceAt(buf, i) ==
    \/ At(buf, i) \in {SP, HTAB, 11, 12}
    \/ At(buf, i) = CR /\ peek(buf, i + 1) # <<"Some", LF>>

\* C40: get_non_whitespace_pos(buf, start) is Some(i) for the smallest index
\* i >= start whose byte is not whitespace, a CR LF pair counting at the
\* index of its CR, and None when every byte from start on is whitespace.
C40_FindsFirstNonWhitespace ==
    last_call.op = "get_non_whitespace_pos" =>
        IF \A i \in last_call.pos..(Len(raw.inner) - 1) : IsWhitespaceAt(raw.inner, i)
        THEN raw.ret = <<"None">>
        ELSE /\ raw.ret[1] = "Some"
             /\ raw.ret[2] \in last_call.pos..(Len(raw.inner) - 1)
             /\ ~IsWhitespaceAt(raw.inner, raw.ret[2])
             /\ \A i \in last_call.pos..(raw.ret[2] - 1) : IsWhitespaceAt(raw.inner, i)

====
